---- MODULE Spec2Model ----
(***************************************************************************)
(* Runtime registry of interactive elements (next-ai-optimizer).          *)
(*                                                                         *)
(* Three implementations of the same engine live in the repository:       *)
(*   "manager"   ComponentMapManager      (utils/componentMapManager.js)  *)
(*   "provider4" AIAgentProvider with server sync and componentMap state  *)
(*   "provider3" AIAgentProvider, always-on variant without server sync   *)
(* A run fixes one of them (variable variant) and follows its code.       *)
(***************************************************************************)
EXTENDS Integers, Sequences, FiniteSets, TLC

\* ------------------------------------------------------------------ bounds
MaxNodes == 2      \* candidate nodes of the page (registry runs)
MaxWatchers == 2   \* watchers set up in one run
MaxTimers == 3     \* timers pending at once
MaxUrl == 1        \* URLs 0..MaxUrl
WatchInputs == 4   \* environment inputs of a watcher run
NavInputs == 4     \* environment inputs of a navigation run
BatchInputs == 3   \* environment inputs of a mutation run
MaxBatch == 2      \* records in a batch
MaxLen == 3        \* characters of an attribute value
MaxCoord == 2      \* viewport width and height; largest box extent
MaxDepth == 3      \* elements from a node up to the body
ServerInputs == 4  \* calls made where there is no window
DisposeInputs == 5 \* setups, disposals and history calls of a disposal run
RaceInputs == 2    \* navigations while updateComponentMap() calls are open
MaxCalls == 2      \* overlapping updateComponentMap() calls

\* -------------------------------------------------------- program constants
DEBOUNCE_MS == 500
SETTLE_MS == 1000
PROVIDER3_SETTLE_MS == 500
REFRESH_MS == 30000

\* The environment acts at timer instants and half a debounce window apart.
TickMs == DEBOUNCE_MS \div 2
IdleCap == REFRESH_MS + TickMs

Nodes == 1..MaxNodes
Urls == 0..MaxUrl
Variants == {"manager", "provider4", "provider3"}

\* The page is built from four element templates.  "button": an HTML
\* <button>Save</button>, named by every selector list.  "switch": a
\* <div role="switch" aria-label="Dark mode">, named only by the manager's
\* list.  "svgA": an SVG <a aria-label="Home">, whose className is an
\* SVGAnimatedString.  "form": a <form data-ai-action="submit" name="search">
\* whose control named "closest" shadows Element.closest.  Two nodes of one
\* template carry the same naming attributes.  A fifth template, "icon", is a
\* <button> holding only an image: no id, label, name or text.
Kinds == {"button", "switch", "svgA", "form"}

\* What the page currently does with the node.
NodeStates == {"absent", "hidden", "disabled", "ok"}

VARIABLES
  variant,          \* which implementation runs
  dom,              \* the document: per node its kind, state, data-ai-target,
                    \* data-ai-action and the next value of Math.random for it
  elementRegistry,  \* targetId -> descriptor
  isCapturing,      \* the in-flight guard
  returned,         \* what the last captureInteractiveElements() call returned
  held,             \* the object a consumer got from getElementRegistry()
  url,              \* window.location.href
  recordedUrl,      \* this.currentUrl (manager), previousUrl.current (providers)
  watcher,          \* per watcher: its status and the history methods it saved
  histPush,         \* window.history.pushState: 0 the native one, w watcher w's wrapper
  histReplace,      \* window.history.replaceState, likewise
  timers,           \* the pending timers, in creation order
  records,          \* the batch of mutation records the page is about to produce
  sync,             \* the updateComponentMap() call in flight and its outcome
  call,             \* a call of a utility function: its argument and result
  react,            \* the mounted provider: its props, its state isAIAgent, the
                    \* effects that ran, window.__AI_AGENT_HELPERS__
  expect,           \* history: the targetIds that qualified at the last completed scan (none after a reset)
  aborted,          \* history: a scan has stopped part-way on an exception
  idle,             \* history: milliseconds since the last scan (since start before any)
  budget,           \* history: how many inputs the environment has made
  ev                \* history: the operation the last step performed

vars == <<variant, dom, elementRegistry, isCapturing, returned, held, url, recordedUrl, watcher,
          histPush, histReplace, timers, records, sync, call, react, expect, aborted, idle, budget, ev>>

\* ------------------------------------------------------------ the document

\* The interactive selector list: element.matches(interactiveSelectors.join(',')).
Matches(v, node) ==
  CASE node.kind = "button" -> TRUE
    [] node.kind = "svgA"   -> TRUE
    [] node.kind = "form"   -> TRUE
    [] node.kind = "switch" -> v = "manager"
    [] node.kind = "icon"   -> TRUE

\* document.querySelectorAll returns only nodes that are in the document.
InDocument(node) == node.state # "absent"

IsElementVisible(node) == node.state \in {"disabled", "ok"}

IsElementInteractable(node) ==
  IF ~IsElementVisible(node) THEN FALSE ELSE node.state # "disabled"

\* generateTargetId: the slug comes from the node's naming attributes (text,
\* aria-label, name), which the template fixes; "" stands for no marker.
\* Without any of them it is the tag name and a random suffix.
GenerateTargetId(node) ==
  CASE node.kind = "button" -> "ai-target-save"
    [] node.kind = "switch" -> "ai-target-dark-mode"
    [] node.kind = "svgA"   -> "ai-target-home"
    [] node.kind = "form"   -> "ai-target-search"
    [] node.kind = "icon"   -> "ai-target-button-" \o ToString(node.rand)

\* determineInteractionType for the templates.
DetermineInteractionType(node) ==
  CASE node.kind \in {"button", "svgA", "icon"} -> "click"
    [] node.kind = "switch" -> "click"
    [] node.kind = "form"   -> "interact"

\* Math.random() yields a new value at every call.
RandStep == 10
UsesRandom(node) == node.kind = "icon"

\* A node of the page as the server rendered it, without markers of its own
\* except the form's data-ai-action; n seeds its random values.
NewNode(kind, state, n) ==
  [kind |-> kind, state |-> state, target |-> "",
   action |-> (IF kind = "form" THEN "submit" ELSE ""), rand |-> n]

\* A DOM call made while the descriptor is built throws a TypeError:
\* element.closest is shadowed on the form; className.split does not exist on
\* an SVGAnimatedString (the manager tests typeof className === 'string').
DescriptorThrows(v, node) ==
  \/ node.kind = "form"
  \/ node.kind = "svgA" /\ v # "manager"

\* ------------------------------------------------------------ the registry

Put(reg, id, d) == (id :> d) @@ reg

\* History only: a new scan makes every descriptor already stored a stale one.
Stale(reg) == [id \in DOMAIN reg |-> [reg[id] EXCEPT !.fresh = FALSE]]

Qualifies(v, node) ==
  /\ InDocument(node) /\ Matches(v, node)
  /\ IsElementVisible(node) /\ IsElementInteractable(node)

TargetRegenerated(node) == GenerateTargetId(node)
TargetOf(node) == IF node.target = "" THEN GenerateTargetId(node) ELSE node.target

\* element.getAttribute('data-ai-action') or, if falsy, determineInteractionType
ActionOf(node) == IF node.action = "" THEN DetermineInteractionType(node) ELSE node.action

QualifyingIds(v, d) == { TargetOf(d[n]) : n \in { m \in DOMAIN d : Qualifies(v, d[m]) } }

\* The body of elements.forEach(...), from node n on, in document order.
\* acc is the object the loop writes: this.elementRegistry in the manager,
\* the local newRegistry in the providers.
\* list is capturedElements.
RECURSIVE ScanLoop(_, _, _, _, _)
ScanLoop(v, d, acc, list, n) ==
  IF n \notin DOMAIN d THEN [dom |-> d, reg |-> acc, list |-> list, threw |-> FALSE]
  ELSE IF ~InDocument(d[n]) \/ ~Matches(v, d[n]) THEN ScanLoop(v, d, acc, list, n + 1)
  ELSE IF ~IsElementVisible(d[n]) \/ ~IsElementInteractable(d[n])
    THEN ScanLoop(v, d, acc, list, n + 1)
  ELSE
    LET aiTarget == TargetOf(d[n])
        aiAction == ActionOf(d[n])
        d2 == [d EXCEPT ![n].target = aiTarget,
                        ![n].action = aiAction,
                        ![n].rand = IF d[n].target = "" /\ UsesRandom(d[n])
                                      THEN @ + RandStep ELSE @]
        elementInfo == [aiTarget |-> aiTarget, aiAction |-> aiAction, node |-> n]
    IN IF DescriptorThrows(v, d[n])
         THEN [dom |-> d2, reg |-> acc, list |-> list, threw |-> TRUE]
         ELSE ScanLoop(v, d2,
                Put(acc, aiTarget, [node |-> n, fresh |-> TRUE, aiAction |-> aiAction]),
                Append(list, elementInfo), n + 1)

\* What a call returns: nothing yet, undefined, or a list of descriptors.
NothingReturned == [value |-> "none", items |-> << >>]
Undefined == [value |-> "undefined", items |-> << >>]
ListOf(items) == [value |-> "list", items |-> items]

\* Object.values(this.elementRegistry); the order of the list is not modelled.
RECURSIVE ObjectValues(_)
ObjectValues(reg) ==
  IF DOMAIN reg = {} THEN << >>
  ELSE LET id == CHOOSE x \in DOMAIN reg : TRUE
       IN <<[aiTarget |-> id, aiAction |-> reg[id].aiAction, node |-> reg[id].node]>>
          \o ObjectValues([y \in DOMAIN reg \ {id} |-> reg[y]])

\* What a consumer can read in a registry object: which node each targetId names.
Content(reg) == [id \in DOMAIN reg |-> reg[id].node]

\* The consumer's object: whether it is still the object the engine works
\* on, what it held when obtained (then) and what it holds at present (now).
NotHeld == [has |-> FALSE, live |-> FALSE, then |-> << >>, now |-> << >>]

\* The engine replaces its registry object by a new one: the old one is left as it is.
Detach(h) == [h EXCEPT !.live = FALSE]

\* The engine has written into its registry object.
Written(h, reg) == IF h.live THEN [h EXCEPT !.now = Content(reg)] ELSE h

\* The guard at the head of captureInteractiveElements.
GuardNeverSet(s) == FALSE
GuardSet(s) == s.isCapturing

\* captureInteractiveElements() on the machine state s.  s.scans counts the
\* traversals made, s.threw tells whether the call left by an exception.
CaptureInteractiveElements(v, s) ==
  IF GuardSet(s)
    THEN [s EXCEPT !.threw = FALSE,
                   !.ret = IF v = "manager" THEN ListOf(ObjectValues(s.reg))
                           ELSE Undefined]
  ELSE
    LET r == ScanLoop(v, s.dom, IF v = "manager" THEN Stale(s.reg) ELSE << >>, << >>, 1)
    IN [s EXCEPT
         !.dom = r.dom,
         !.ret = IF r.threw THEN s.ret ELSE ListOf(r.list),
         !.held = IF v = "manager" THEN Written(s.held, r.reg)
                  ELSE IF r.threw THEN s.held ELSE Detach(s.held),
         !.reg = IF v = "manager" THEN r.reg
                 ELSE IF r.threw THEN Stale(s.reg) ELSE r.reg,
         !.isCapturing = r.threw,
         !.scans = s.scans + 1,
         !.threw = r.threw,
         !.idle = 0,
         !.expect = IF r.threw THEN s.expect ELSE QualifyingIds(v, s.dom),
         !.aborted = s.aborted \/ r.threw ]

\* resetElementRegistry()
ResetElementRegistry(s) ==
  [s EXCEPT !.reg = << >>, !.expect = {}, !.held = Detach(@)]

\* The machine state the operators work on, and its write-back.
Machine ==
  [ dom |-> dom, reg |-> elementRegistry, isCapturing |-> isCapturing,
    recordedUrl |-> recordedUrl, timers |-> timers, ret |-> returned,
    held |-> held,
    scans |-> 0, threw |-> FALSE, invoked |-> {},
    expect |-> expect, aborted |-> aborted, idle |-> idle ]

Commit(s) ==
  /\ dom' = s.dom
  /\ elementRegistry' = s.reg
  /\ isCapturing' = s.isCapturing
  /\ returned' = s.ret
  /\ held' = s.held
  /\ recordedUrl' = s.recordedUrl
  /\ timers' = s.timers
  /\ expect' = s.expect
  /\ aborted' = s.aborted
  /\ idle' = s.idle

\* What the step did: the operation, the watcher it ran for (0: none), the
\* traversals it made, whether the guard was set when it began, whether it
\* changed the document or the registry, and the watchers whose URL-change
\* handler it invoked.
Event(op, w, s, guarded) ==
  ev' = [ op |-> op, w |-> w, scans |-> s.scans, guarded |-> guarded,
          changed |-> (s.dom # dom \/ s.reg # elementRegistry),
          invoked |-> s.invoked ]

NoEvent == [op |-> "init", w |-> 0, scans |-> 0, guarded |-> FALSE,
            changed |-> FALSE, invoked |-> {}]


\* ------------------------------------------------------------- the watcher

Min(a, b) == IF a < b THEN a ELSE b

Timer(kind, w, ms, inSlot) == [kind |-> kind, w |-> w, left |-> ms, inSlot |-> inSlot]

Remove(ts, i) == [j \in 1..(Len(ts) - 1) |-> IF j < i THEN ts[j] ELSE ts[j + 1]]

\* clearTimeout(window.aiMapUpdateTimeout) (window.aiUpdateTimeout in
\* provider3): cancels the timer the global slot names, whoever scheduled it;
\* a slot naming a timer that has fired cancels nothing.
ClearSlot(ts) == SelectSeq(ts, LAMBDA x : ~x.inSlot)

Active(wt) == { w \in DOMAIN wt : wt[w].status = "active" }

NavDelay(v) == IF v = "provider3" THEN PROVIDER3_SETTLE_MS ELSE SETTLE_MS

\* handleUrlChange of watcher w, the URL being u.  hasUrlChanged() compares
\* with, and then records into, the URL the owner last saw.
HandleUrlChangeClearing(v, w, s, u) ==
  LET s1 == [s EXCEPT !.invoked = @ \cup {w}]
  IN IF s1.recordedUrl # u
       THEN [ResetElementRegistry(s1) EXCEPT
               !.recordedUrl = u,
               !.timers = Append(@, Timer("nav", w, NavDelay(v), FALSE))]
       ELSE s1
HandleUrlChange(v, w, s, u) ==
  LET s1 == [s EXCEPT !.invoked = @ \cup {w}]
  IN IF s1.recordedUrl # u
       THEN [s1 EXCEPT !.recordedUrl = u,
                       !.timers = Append(@, Timer("nav", w, NavDelay(v), FALSE))]
       ELSE s1

\* The wrappers a call of history method k runs through: wrapper k calls the
\* method it saved at setup and then its own handleUrlChange, so the handlers
\* run innermost first.  orig[w] is the method watcher w saved.
RECURSIVE Chain(_, _)
Chain(orig, k) == IF k = 0 THEN << >> ELSE Append(Chain(orig, orig[k]), k)

RECURSIVE RunHandlers(_, _, _, _)
RunHandlers(v, ws, s, u) ==
  IF ws = << >> THEN s
  ELSE RunHandlers(v, Tail(ws), HandleUrlChange(v, Head(ws), s, u), u)

\* The watchers of set S in the order they were set up.
RECURSIVE InOrder(_)
InOrder(S) ==
  IF S = {} THEN << >>
  ELSE LET m == CHOOSE x \in S : \A y \in S : x <= y
       IN <<m>> \o InOrder(S \ {m})

\* ----- mutation records
\* What a record can name: a text node, a <div> without controls, a <div>
\* holding a control, a control every selector list names (button, a, ...),
\* an element with role="switch" (only the manager's list names it).
ItemKinds == {"text", "div", "divWithControl", "control", "switch"}
ElementItems == ItemKinds \ {"text"}

ItemIsElement(i) == i # "text"
ItemMatches(v, i) == i = "control" \/ (i = "switch" /\ v = "manager")
ItemContains(v, i) == i = "divWithControl"

\* for (const node of mutation.addedNodes): TRUE when the loop breaks on a hit.
RECURSIVE AddedLoop(_, _, _)
AddedLoop(v, nodes, i) ==
  IF i > Len(nodes) THEN FALSE
  ELSE IF ~ItemIsElement(nodes[i]) THEN AddedLoop(v, nodes, i + 1)
  ELSE IF ItemMatches(v, nodes[i]) \/ ItemContains(v, nodes[i]) THEN TRUE
  ELSE AddedLoop(v, nodes, i + 1)

\* for (const mutation of mutations): the value of shouldUpdate at its end.
RECURSIVE MutationLoop(_, _, _, _)
MutationLoop(v, ms, i, shouldUpdate) ==
  IF i > Len(ms) THEN shouldUpdate
  ELSE IF ms[i].type = "childList" /\ Len(ms[i].addedNodes) > 0
    THEN MutationLoop(v, ms, i + 1, shouldUpdate \/ AddedLoop(v, ms[i].addedNodes, 1))
  ELSE IF ms[i].type = "attributes"
    THEN IF ItemIsElement(ms[i].target) /\ ItemMatches(v, ms[i].target)
           THEN TRUE
           ELSE MutationLoop(v, ms, i + 1, shouldUpdate)
  ELSE MutationLoop(v, ms, i + 1, shouldUpdate)

ShouldUpdateFirstOnly(v, ms) == MutationLoop(v, SubSeq(ms, 1, 1), 1, FALSE)
ShouldUpdate(v, ms) == MutationLoop(v, ms, 1, FALSE)

\* The MutationObserver callback of watcher w on one batch of records.
ObserverCallback(v, w, s, batch) ==
  IF ShouldUpdate(v, batch)
    THEN [s EXCEPT !.timers =
            Append(ClearSlot(@), Timer("debounce", w, DEBOUNCE_MS, TRUE))]
    ELSE s

RECURSIVE Observe(_, _, _, _)
Observe(v, ws, s, batch) ==
  IF ws = << >> THEN s
  ELSE Observe(v, Tail(ws), ObserverCallback(v, Head(ws), s, batch), batch)

\* ----- timer callbacks
\* updateComponentMap() / updateComponentMapOnServer() up to its first await:
\* it scans again, inside try/catch.
UpdateComponentMap(v, s) == [CaptureInteractiveElements(v, s) EXCEPT !.threw = FALSE]

\* What a timer of the given kind runs.
TimerBody(v, kind, s) ==
  IF v = "provider3" THEN CaptureInteractiveElements(v, s)
  ELSE
    LET s0 == IF v = "manager" /\ kind = "nav" THEN ResetElementRegistry(s) ELSE s
        s1 == CaptureInteractiveElements(v, s0)
    IN IF s1.threw THEN s1 ELSE UpdateComponentMap(v, s1)

\* The timers setup schedules.
SetupTimers(v, w) ==
  CASE v = "manager"   -> <<Timer("initial", w, SETTLE_MS, FALSE)>>
    [] v = "provider4" -> <<Timer("initial", w, SETTLE_MS, FALSE),
                            Timer("interval", w, REFRESH_MS, FALSE)>>
    [] v = "provider3" -> <<Timer("interval", w, REFRESH_MS, FALSE)>>

\* The timers the disposer of watcher w leaves pending.
DisposeTimers(v, w, ts) ==
  LET kept(x) ==
        CASE v = "manager"   -> TRUE
          [] v = "provider4" -> ~(x.w = w /\ x.kind \in {"interval", "initial"})
          [] v = "provider3" -> ~(x.w = w /\ x.kind = "interval")
  IN ClearSlot(SelectSeq(ts, kept))

\* ------------------------------------------------------------- server sync

\* The persisted map.  fetchComponentMap() resolves to what the server sent,
\* or to an empty baseline when the request fails, the status is not ok or
\* the body does not parse.
ServerMap ==
  [ components |-> <<"Header">>,
    runtimeElements |-> ListOf(<<[aiTarget |-> "ai-target-old", aiAction |-> "click", node |-> 0]>>),
    pageContexts |-> {"home"},
    version |-> "1.0.0" ]

EmptyBaseline ==
  [ components |-> << >>, runtimeElements |-> ListOf(<< >>),
    pageContexts |-> {}, version |-> "1.0.0" ]

GetOutcomes == {"ok", "networkError", "notOk", "badBody"}
PostOutcomes == {"ok", "networkError", "notOk"}

FetchIgnoresFailure(outcome, server) == server
FetchComponentMap(outcome, server) == IF outcome = "ok" THEN server ELSE EmptyBaseline

\* The body of the POST.  The provider sends no currentPath.
NoPath == -1
UpdatedMap(v, componentMap, elements, path) ==
  [ components |-> componentMap.components,
    pageContexts |-> componentMap.pageContexts,
    version |-> componentMap.version,
    runtimeElements |-> elements,
    currentPath |-> IF v = "manager" THEN path ELSE NoPath ]

\* if (!response.ok) throw ...; a rejected fetch throws as well.
PostOkUnchecked(outcome) == outcome # "networkError"
PostOk(outcome) == outcome = "ok"

\* catch (error) { console.error(...); return false; }
OnSyncFailureRollback(s) == ResetElementRegistry(s)
OnSyncFailure(s) == s

\* No call in flight.  componentMap is the provider's state of that name.
NoSync ==
  [ pc |-> "idle", elements |-> NothingReturned, get |-> "none", post |-> "none",
    base |-> EmptyBaseline, body |-> UpdatedMap("manager", EmptyBaseline, NothingReturned, 0),
    result |-> "none", componentMap |-> ServerMap ]

\* No utility call made.
NoCall == [fn |-> "none"]

\* No provider mounted.
NoReact == [pc |-> "unmounted"]

\* ------------------------------------------------------------------- Init

InitDom ==
  \E k \in [Nodes -> Kinds], st \in [Nodes -> NodeStates] :
    dom = [n \in Nodes |-> NewNode(k[n], st[n], n)]

\* The state after construction, before any watcher is set up.  The manager
\* records the URL at construction, the providers start from ''.
InitWindow ==
  /\ url = 0
  /\ recordedUrl = (IF variant = "manager" THEN 0 ELSE -1)
  /\ histPush = 0
  /\ histReplace = 0
  /\ timers = << >>
  /\ sync = NoSync
  /\ call = NoCall
  /\ react = NoReact
  /\ idle = 0
  /\ budget = 0

InitScan ==
  /\ variant \in Variants
  /\ InitDom
  /\ elementRegistry = << >>
  /\ isCapturing = FALSE
  /\ returned = NothingReturned
  /\ held = NotHeld
  /\ InitWindow
  /\ records = << >>
  /\ watcher = << >>
  /\ expect = {}
  /\ aborted = FALSE
  /\ ev = NoEvent

\* ---------------------------------------------------------------- actions

windowNoBudget == <<url, watcher, histPush, histReplace, records, sync, call, react>>
windowVars == <<url, watcher, histPush, histReplace, records, sync, call, react, budget>>

\* A consumer calls captureInteractiveElements() (the hook's captureElements,
\* window.__AI_AGENT_HELPERS__.captureElements, the assistant's button).
CallCapture ==
  /\ \E s \in {CaptureInteractiveElements(variant, Machine)} :
       Commit(s) /\ Event("capture", 0, s, isCapturing)
  /\ UNCHANGED <<variant, windowVars>>

\* A consumer calls resetElementRegistry(); only the manager has it.
CallReset ==
  /\ variant = "manager"
  /\ \E s \in {ResetElementRegistry(Machine)} :
       Commit(s) /\ Event("reset", 0, s, FALSE)
  /\ UNCHANGED <<variant, windowVars>>

\* A consumer calls getElementRegistry() (the hook's captureElements stores
\* the result in its state; the provider hands its state object to the context).
GetElementRegistry ==
  /\ \E s \in {[Machine EXCEPT !.held = [has |-> TRUE, live |-> TRUE,
                                          then |-> Content(elementRegistry),
                                          now |-> Content(elementRegistry)]]} :
       Commit(s) /\ Event("get", 0, s, FALSE)
  /\ UNCHANGED <<variant, windowVars>>

\* The page shows, hides, disables, inserts or removes a candidate node.
DomChange ==
  \E n \in DOMAIN dom, st \in NodeStates :
    /\ dom[n].state # st
    /\ \E s \in {[Machine EXCEPT !.dom = [dom EXCEPT ![n].state = st]]} :
         Commit(s) /\ Event("dom", 0, s, FALSE)
    /\ UNCHANGED <<variant, windowVars>>


\* ---------------------------------------------------------- sync actions

syncFrame == <<variant, url, watcher, histPush, histReplace, records, call, react, budget>>

\* updateComponentMap() / updateComponentMapOnServer() is called and runs up
\* to its first await: the scan, inside the try; then the manager sends the
\* GET, the provider builds the body from its componentMap state and sends
\* the POST.  An exception of the scan goes to the catch: false.
UpdateEffect ==
  /\ sync.pc \in {"idle", "done"}
  /\ \E s \in {CaptureInteractiveElements(variant, Machine)} :
       /\ IF s.threw
            THEN /\ Commit(OnSyncFailure([s EXCEPT !.threw = FALSE]))
                 /\ sync' = [sync EXCEPT !.pc = "done", !.get = "none", !.post = "none",
                                          !.result = "false"]
            ELSE /\ Commit(s)
                 /\ sync' = IF variant = "manager"
                      THEN [sync EXCEPT !.pc = "get", !.elements = s.ret,
                                        !.get = "none", !.post = "none", !.result = "none"]
                      ELSE [sync EXCEPT !.pc = "post", !.elements = s.ret,
                                        !.get = "none", !.post = "none", !.result = "none",
                                        !.base = sync.componentMap,
                                        !.body = UpdatedMap(variant, sync.componentMap, s.ret, url)]
       /\ Event("update", 0, s, isCapturing)

UpdateStart ==
  /\ variant # "provider3"
  /\ UpdateEffect
  /\ UNCHANGED syncFrame

\* The GET settles; fetchComponentMap() resolves and the POST is sent.
GetResponse ==
  /\ sync.pc = "get"
  /\ \E o \in GetOutcomes :
       sync' = [sync EXCEPT
                  !.pc = "post", !.get = o,
                  !.base = FetchComponentMap(o, ServerMap),
                  !.body = UpdatedMap(variant, FetchComponentMap(o, ServerMap),
                                      sync.elements, url)]
  /\ \E s \in {Machine} : Commit(s) /\ Event("getResponse", 0, s, FALSE)
  /\ UNCHANGED syncFrame

\* The POST settles; the promise of updateComponentMap() resolves.
PostEffect(o) ==
  /\ sync' = [sync EXCEPT
               !.pc = "done", !.post = o,
               !.result = IF PostOk(o) THEN "true" ELSE "false",
               !.componentMap =
                  IF PostOk(o) /\ variant = "provider4"
                    THEN [ components |-> sync.body.components,
                           runtimeElements |-> sync.body.runtimeElements,
                           pageContexts |-> sync.body.pageContexts,
                           version |-> sync.body.version ]
                    ELSE @]
  /\ \E s \in {IF PostOk(o) THEN Machine ELSE OnSyncFailure(Machine)} :
       Commit(s) /\ Event("postResponse", 0, s, FALSE)

PostResponse ==
  /\ sync.pc = "post"
  /\ \E o \in PostOutcomes : PostEffect(o)
  /\ UNCHANGED syncFrame

\* ------------------------------------------------------- watcher actions

\* One more input of the environment, of at most max.
Input(max) == budget < max /\ budget' = budget + 1

Unused == [status |-> "unused", origPush |-> 0, origReplace |-> 0]

\* setupNavigationMonitoring() / the navigation effect of the provider, for
\* the next unused watcher.  A provider has one effect instance at a time.
\* provider3 scans at once; if that scan throws the effect ends there.
SetupEffect(w) ==
    /\ watcher[w].status = "unused"
    /\ \A k \in DOMAIN watcher : k < w => watcher[k].status # "unused"
    /\ variant # "manager" => Active(watcher) = {}
    /\ Len(timers) + 2 <= MaxTimers
    /\ \E s0 \in {IF variant = "provider3"
                     THEN CaptureInteractiveElements(variant, Machine) ELSE Machine} :
          IF s0.threw
            THEN /\ Commit(s0)
                 /\ Event("setup", w, s0, isCapturing)
                 /\ watcher' = [watcher EXCEPT ![w].status = "failed"]
                 /\ UNCHANGED <<histPush, histReplace>>
            ELSE \E s \in {[s0 EXCEPT !.timers = @ \o SetupTimers(variant, w),
                                        !.idle = 0]} :
                    /\ Commit(s)
                    /\ Event("setup", w, s, isCapturing)
                    /\ watcher' = [watcher EXCEPT ![w] =
                         [status |-> "active", origPush |-> histPush,
                          origReplace |-> histReplace]]
                    /\ histPush' = w
                    /\ histReplace' = w

SetupNavigationMonitoring(max) ==
  \E w \in DOMAIN watcher :
    /\ SetupEffect(w)
    /\ Input(max)
    /\ UNCHANGED <<variant, url, records, sync, call, react>>

\* The disposer setup returned (the effect's cleanup), called once.
DisposeEffect(w) ==
    /\ watcher' = [watcher EXCEPT ![w].status = "disposed"]
    /\ histPush' = watcher[w].origPush
    /\ histReplace' = watcher[w].origReplace
    /\ \E s \in {[Machine EXCEPT !.timers = DisposeTimers(variant, w, @)]} :
         Commit(s) /\ Event("dispose", w, s, FALSE)

Dispose(max) ==
  \E w \in Active(watcher) :
    /\ Input(max)
    /\ DisposeEffect(w)
    /\ UNCHANGED <<variant, url, records, sync, call, react>>

\* The page calls history.pushState(..., u).
PushState(max) ==
  \E u \in Urls :
    /\ Input(max)
    /\ Len(timers) < MaxTimers
    /\ url' = u
    /\ \E s \in {RunHandlers(variant,
                   Chain([w \in DOMAIN watcher |-> watcher[w].origPush], histPush),
                   Machine, u)} :
         Commit(s) /\ Event("pushState", 0, s, FALSE)
    /\ UNCHANGED <<variant, watcher, histPush, histReplace, records, sync, call, react>>

\* The page calls history.replaceState(..., u).
ReplaceState(max) ==
  \E u \in Urls :
    /\ Input(max)
    /\ Len(timers) < MaxTimers
    /\ url' = u
    /\ \E s \in {RunHandlers(variant,
                   Chain([w \in DOMAIN watcher |-> watcher[w].origReplace], histReplace),
                   Machine, u)} :
         Commit(s) /\ Event("replaceState", 0, s, FALSE)
    /\ UNCHANGED <<variant, watcher, histPush, histReplace, records, sync, call, react>>

\* The user goes back or forward to u: the popstate listeners run.
Popstate(max) ==
  \E u \in Urls :
    /\ Input(max)
    /\ Len(timers) < MaxTimers
    /\ url' = u
    /\ \E s \in {RunHandlers(variant, InOrder(Active(watcher)), Machine, u)} :
         Commit(s) /\ Event("popstate", 0, s, FALSE)
    /\ UNCHANGED <<variant, watcher, histPush, histReplace, records, sync, call, react>>

\* The connected observers receive one batch of mutation records.
Deliver(batch, s) == Observe(variant, InOrder(Active(watcher)), s, batch)

MutationBatch(max, batches) ==
  \E b \in batches :
    /\ Input(max)
    /\ Len(timers) < MaxTimers
    /\ \E s \in {Deliver(b, Machine)} :
         Commit(s) /\ Event("mutation", 0, s, FALSE)
    /\ UNCHANGED <<variant, windowNoBudget>>

\* The page produces the batch it had prepared (records).
ObserverDelivery(max) ==
  /\ records # << >>
  /\ Input(max)
  /\ Len(timers) < MaxTimers
  /\ \E s \in {Deliver(records, Machine)} :
       Commit(s) /\ Event("delivery", 0, s, FALSE)
  /\ UNCHANGED <<variant, windowNoBudget>>

\* The record the observers get for a change of a candidate node.
ItemOf(node) == IF node.kind = "switch" THEN "switch" ELSE "control"

RecordOf(node, st) ==
  IF node.state = "absent"
    THEN [type |-> "childList", addedNodes |-> <<ItemOf(node)>>, target |-> "div"]
  ELSE IF st = "absent"
    THEN [type |-> "childList", addedNodes |-> << >>, target |-> "div"]
  ELSE [type |-> "attributes", addedNodes |-> << >>, target |-> ItemOf(node)]

\* The page inserts, removes, shows, hides or disables a candidate node, and
\* the observers get the record in the microtask that follows.
DomChangeObserved(max, states) ==
  \E n \in DOMAIN dom, st \in states :
    /\ dom[n].state # st
    /\ Input(max)
    /\ Len(timers) < MaxTimers
    /\ \E s \in {Deliver(<<RecordOf(dom[n], st)>>,
                          [Machine EXCEPT !.dom = [dom EXCEPT ![n].state = st]])} :
         Commit(s) /\ Event("dom", 0, s, FALSE)
    /\ UNCHANGED <<variant, windowNoBudget>>

Due(ts) == { i \in DOMAIN ts : ts[i].left = 0 }

\* The event loop runs the callback of the first timer that is due.
TimerFire ==
  /\ Due(timers) # {}
  /\ LET i == CHOOSE x \in Due(timers) : \A y \in Due(timers) : x <= y
         rest == IF timers[i].kind = "interval"
                   THEN [timers EXCEPT ![i].left = REFRESH_MS]
                   ELSE Remove(timers, i)
     IN \E s \in {TimerBody(variant, timers[i].kind, [Machine EXCEPT !.timers = rest])} :
          Commit(s) /\ Event(timers[i].kind, timers[i].w, s, isCapturing)
  /\ UNCHANGED <<variant, windowVars>>

Elapse(d) ==
  /\ \A i \in DOMAIN timers : timers[i].left >= d
  /\ timers' = [i \in DOMAIN timers |-> [timers[i] EXCEPT !.left = @ - d]]
  /\ idle' = Min(idle + d, IdleCap)
  /\ ev' = [NoEvent EXCEPT !.op = "elapse"]
  /\ UNCHANGED <<variant, dom, elementRegistry, isCapturing, returned, held, url, recordedUrl,
                 watcher, histPush, histReplace, records, sync, call, react, expect, aborted>>

\* Time passes until the next timer is due (a refresh period if none is pending).
AdvanceToTimer ==
  /\ Due(timers) = {}
  /\ \E d \in IF timers = << >> THEN {REFRESH_MS}
              ELSE { timers[i].left : i \in DOMAIN timers } : Elapse(d)
  /\ UNCHANGED budget

\* Half a debounce window passes before the environment acts again.
Tick(max) == Input(max) /\ Elapse(TickMs)

NextScan == CallCapture \/ CallReset \/ DomChange

SpecScan == InitScan /\ [][NextScan]_vars


\* A watcher run: a page with one button, up to MaxWatchers watchers.
WatchBatches ==
  { <<[type |-> "attributes", addedNodes |-> << >>, target |-> "control"]>>,
    <<[type |-> "childList", addedNodes |-> <<"text">>, target |-> "div"]>> }

InitWatch ==
  /\ variant \in Variants
  /\ dom = [n \in {1} |-> NewNode("button", "ok", n)]
  /\ elementRegistry = << >>
  /\ isCapturing = FALSE
  /\ returned = NothingReturned
  /\ held = NotHeld
  /\ InitWindow
  /\ records = << >>
  /\ watcher = [w \in 1..MaxWatchers |-> Unused]
  /\ expect = {}
  /\ aborted = FALSE
  /\ ev = NoEvent

NextWatch ==
  \/ SetupNavigationMonitoring(WatchInputs)
  \/ Dispose(WatchInputs)
  \/ PushState(WatchInputs)
  \/ ReplaceState(WatchInputs)
  \/ Popstate(WatchInputs)
  \/ MutationBatch(WatchInputs, WatchBatches)
  \/ Tick(WatchInputs)
  \/ AdvanceToTimer
  \/ TimerFire

SpecWatch == InitWatch /\ [][NextWatch]_vars

\* A mutation run: one watcher and every batch of up to MaxBatch records.
\* A childList record removes nodes only, or adds one node of any kind, or
\* adds a node the loop skips and then one that decides.
AddedLists ==
  { << >> } \cup { <<x>> : x \in ItemKinds }
  \cup { <<"text", "control">>, <<"div", "divWithControl">>, <<"div", "text">> }

MutationRecords ==
  { [type |-> "childList", addedNodes |-> a, target |-> "div"] : a \in AddedLists }
  \cup { [type |-> "attributes", addedNodes |-> << >>, target |-> x] :
      x \in ElementItems }

Batches == UNION { [1..k -> MutationRecords] : k \in 1..MaxBatch }

InitBatch ==
  /\ variant \in Variants
  /\ dom = [n \in {1} |-> NewNode("button", "ok", n)]
  /\ elementRegistry = << >>
  /\ isCapturing = FALSE
  /\ returned = NothingReturned
  /\ held = NotHeld
  /\ InitWindow
  /\ records \in Batches
  /\ watcher = [w \in {1} |-> Unused]
  /\ expect = {}
  /\ aborted = FALSE
  /\ ev = NoEvent

NextBatch ==
  \/ SetupNavigationMonitoring(BatchInputs)
  \/ MutationBatch(BatchInputs, WatchBatches)
  \/ ObserverDelivery(BatchInputs)

SpecBatch == InitBatch /\ [][NextBatch]_vars

\* A marker run: one node, a <button> with text or an icon-only one, which
\* the build may have given a data-ai-target and a data-ai-action.
MarkerKinds == {"button", "icon"}
BuildTargets == {"", "Header-button-k3j9"}
BuildActions == {"", "click", "toggle"}

InitMarker ==
  /\ variant \in Variants
  /\ \E k \in MarkerKinds, st \in NodeStates, tg \in BuildTargets, ac \in BuildActions :
       dom = [n \in {1} |-> [NewNode(k, st, n) EXCEPT !.target = tg, !.action = ac]]
  /\ elementRegistry = << >>
  /\ isCapturing = FALSE
  /\ returned = NothingReturned
  /\ held = NotHeld
  /\ InitWindow
  /\ records = << >>
  /\ watcher = << >>
  /\ expect = {}
  /\ aborted = FALSE
  /\ ev = NoEvent

SpecMarker == InitMarker /\ [][NextScan]_vars

\* A reader run: one node of any template, and a consumer that keeps what
\* getElementRegistry() gave it.
InitReader ==
  /\ variant \in Variants
  /\ \E k \in Kinds, st \in NodeStates : dom = [n \in {1} |-> NewNode(k, st, n)]
  /\ elementRegistry = << >>
  /\ isCapturing = FALSE
  /\ returned = NothingReturned
  /\ held = NotHeld
  /\ InitWindow
  /\ records = << >>
  /\ watcher = << >>
  /\ expect = {}
  /\ aborted = FALSE
  /\ ev = NoEvent

NextReader == NextScan \/ GetElementRegistry

SpecReader == InitReader /\ [][NextReader]_vars

\* A sync run: the manager or the syncing provider on a page that shows up
\* to MaxNodes buttons (the second node is the form whose scan throws),
\* with scans by other callers while a request is in flight.
NavStates == {"absent", "ok"}
SyncKind(n) == IF n = 2 THEN "form" ELSE "button"

InitSync ==
  /\ variant \in {"manager", "provider4"}
  /\ \E st \in [Nodes -> NavStates] :
       dom = [n \in Nodes |-> NewNode(SyncKind(n), st[n], n)]
  /\ elementRegistry = << >>
  /\ isCapturing = FALSE
  /\ returned = NothingReturned
  /\ held = NotHeld
  /\ InitWindow
  /\ records = << >>
  /\ watcher = << >>
  /\ expect = {}
  /\ aborted = FALSE
  /\ ev = NoEvent

PageChange ==
  \E n \in DOMAIN dom, st \in NavStates :
    /\ dom[n].state # st
    /\ \E s \in {[Machine EXCEPT !.dom = [dom EXCEPT ![n].state = st]]} :
         Commit(s) /\ Event("dom", 0, s, FALSE)
    /\ UNCHANGED <<variant, windowVars>>

NextSync ==
  \/ UpdateStart
  \/ GetResponse
  \/ PostResponse
  \/ CallCapture
  \/ PageChange

SpecSync == InitSync /\ [][NextSync]_vars

\* A navigation run: one watcher; the page shows a button first and an SVG
\* link second (buttons after that), each inserted and removed as the
\* application navigates.
NavKind(n) == IF n = 2 THEN "svgA" ELSE "button"

InitNav ==
  /\ variant \in Variants
  /\ \E st \in [Nodes -> NavStates] :
       dom = [n \in Nodes |-> NewNode(NavKind(n), st[n], n)]
  /\ elementRegistry = << >>
  /\ isCapturing = FALSE
  /\ returned = NothingReturned
  /\ held = NotHeld
  /\ InitWindow
  /\ records = << >>
  /\ watcher = [w \in {1} |-> Unused]
  /\ expect = {}
  /\ aborted = FALSE
  /\ ev = NoEvent

NextNav ==
  \/ SetupNavigationMonitoring(NavInputs)
  \/ PushState(NavInputs)
  \/ DomChangeObserved(NavInputs, NavStates)
  \/ AdvanceToTimer
  \/ TimerFire

SpecNav == InitNav /\ [][NextNav]_vars

\* ------------------------------------------------------ target-id derivation

\* A string is the sequence of its characters.
UpperCase == <<"A","B","C","D","E","F","G","H","I","J","K","L","M",
               "N","O","P","Q","R","S","T","U","V","W","X","Y","Z">>
LowerCase == <<"a","b","c","d","e","f","g","h","i","j","k","l","m",
               "n","o","p","q","r","s","t","u","v","w","x","y","z">>
Digits == {"0","1","2","3","4","5","6","7","8","9"}
Range(f) == { f[i] : i \in DOMAIN f }

\* \s of a regular expression.
Whitespace == {" "}

\* String.prototype.toLowerCase.
ToLowerChar(c) ==
  IF c \in Range(UpperCase)
    THEN LowerCase[CHOOSE i \in DOMAIN UpperCase : UpperCase[i] = c]
    ELSE c
ToLowerCase(s) == [i \in 1..Len(s) |-> ToLowerChar(s[i])]

\* String.prototype.trim.
RECURSIVE TrimStart(_)
TrimStart(s) ==
  IF s # << >> /\ Head(s) \in Whitespace THEN TrimStart(Tail(s)) ELSE s
RECURSIVE TrimEnd(_)
TrimEnd(s) ==
  IF s # << >> /\ s[Len(s)] \in Whitespace
    THEN TrimEnd(SubSeq(s, 1, Len(s) - 1)) ELSE s
Trim(s) == TrimEnd(TrimStart(s))

\* The length of the run of characters of class that s starts with.
RunLength(s, class) ==
  CHOOSE n \in 0..Len(s) :
    /\ \A i \in 1..n : s[i] \in class
    /\ n = Len(s) \/ s[n + 1] \notin class

\* s.replace(/c{min,}/g, '-'): every maximal run of at least min characters
\* of class becomes one hyphen.
RECURSIVE ReplaceRuns(_, _, _)
ReplaceRuns(s, class, min) ==
  IF s = << >> THEN << >>
  ELSE LET n == RunLength(s, class) IN
       IF n >= min
         THEN <<"-">> \o ReplaceRuns(SubSeq(s, n + 1, Len(s)), class, min)
         ELSE IF n > 0
           THEN SubSeq(s, 1, n) \o ReplaceRuns(SubSeq(s, n + 1, Len(s)), class, min)
           ELSE <<Head(s)>> \o ReplaceRuns(Tail(s), class, min)

\* .replace(/\s+/g, '-')
WhitespaceToHyphen(s) == ReplaceRuns(s, Whitespace, 1)

\* The class [a-z0-9-_] under the flag i: letters of either case, digits,
\* hyphen and underscore.
IdChars == Range(LowerCase) \cup Range(UpperCase) \cup Digits \cup {"-", "_"}

\* .replace(/[^a-z0-9-_]/gi, '-')
ReplaceInvalid(s) == [i \in 1..Len(s) |-> IF s[i] \in IdChars THEN s[i] ELSE "-"]

\* .replace(/--+/g, '-')
CollapseHyphens(s) == ReplaceRuns(s, {"-"}, 2)

\* .replace(/^-|-$/g, ''): one hyphen at the start and one at the end.
StripEdgeHyphens(s) ==
  LET a == IF s # << >> /\ Head(s) = "-" THEN Tail(s) ELSE s
  IN IF a # << >> /\ a[Len(a)] = "-" THEN SubSeq(a, 1, Len(a) - 1) ELSE a

\* The clean-up of baseId: the utilities replace, collapse and strip; the
\* providers' copy only replaces.
CleanUp(v, baseId) ==
  IF v = "manager"
    THEN StripEdgeHyphens(CollapseHyphens(ReplaceInvalid(baseId)))
    ELSE ReplaceInvalid(baseId)

\* Text of this length or longer is not used for the id.
TextLimit == 20

\* getAttribute yields null for an absent attribute, element.id yields '';
\* both are falsy and both are the empty sequence here.
Absent == << >>
Truthy(s) == s # << >>

\* The attributes in the order of the if-chain.  The providers' copy does not
\* read data-testid.
SourceOrderNameFirst(v) ==
  IF v = "manager"
    THEN <<"id", "dataTestId", "name", "ariaLabel", "placeholder", "text">>
    ELSE <<"id", "name", "ariaLabel", "placeholder", "text">>
SourceOrder(v) ==
  IF v = "manager"
    THEN <<"id", "dataTestId", "ariaLabel", "name", "placeholder", "text">>
    ELSE <<"id", "ariaLabel", "name", "placeholder", "text">>

\* The value the if-chain tests for attribute a, and whether the test passes.
SourceValue(element, a) ==
  IF a = "text" THEN Trim(element.textContent) ELSE element[a]
SourceUsable(element, a) ==
  IF a = "text"
    THEN Truthy(SourceValue(element, a)) /\ Len(SourceValue(element, a)) < TextLimit
    ELSE Truthy(SourceValue(element, a))

\* The branch the if-chain takes: the first attribute whose test passes, or
\* "random" for the last else.
BaseIdSource(v, element) ==
  LET order == SourceOrder(v)
      hits == { i \in DOMAIN order : SourceUsable(element, order[i]) }
  IN IF hits = {} THEN "random"
     ELSE order[CHOOSE i \in hits : \A j \in hits : i <= j]

\* baseId before the clean-up; r is Math.random().toString(36).substring(2, 8).
BaseId(v, element, r) ==
  LET a == BaseIdSource(v, element) IN
  CASE a = "random" -> ToLowerCase(element.tagName) \o <<"-">> \o r
    [] a \in {"ariaLabel", "placeholder", "text"} ->
         ToLowerCase(WhitespaceToHyphen(SourceValue(element, a)))
    [] OTHER -> SourceValue(element, a)

Prefix == <<"a","i","-","t","a","r","g","e","t","-">>

\* generateTargetId(element) of the utilities (v = "manager") and of the
\* providers.
GenerateTargetIdFor(v, element, r) == Prefix \o CleanUp(v, BaseId(v, element, r))

\* ----- the elements generateTargetId is applied to

\* The characters attribute values are made of: a lowercase letter, an
\* uppercase letter, a blank, a hyphen, a punctuation mark.
Alphabet == {"a", "B", " ", "-", "!"}
RECURSIVE StringsUpTo(_)
StringsUpTo(n) ==
  IF n = 0 THEN {<< >>}
  ELSE LET shorter == StringsUpTo(n - 1)
       IN shorter \cup { Append(s, c) : s \in shorter, c \in Alphabet }
Strings == StringsUpTo(MaxLen)

Repeat(c, n) == [i \in 1..n |-> c]

AttrNames == {"id", "dataTestId", "ariaLabel", "name", "placeholder", "textContent"}

\* Values as an author writes them, one per attribute.
Plain(a) ==
  CASE a = "id"          -> <<"n","a","v">>
    [] a = "dataTestId"  -> <<"c","t","a">>
    [] a = "ariaLabel"   -> <<"c","l","o","s","e">>
    [] a = "name"        -> <<"e","m","a","i","l">>
    [] a = "placeholder" -> <<"q","u","e","r","y">>
    [] a = "textContent" -> <<"s","a","v","e">>

\* Text around the limit: 19 and 20 characters, and 19 between blanks.
Texts ==
  { Absent, Plain("textContent"), Repeat("x", TextLimit - 1), Repeat("x", TextLimit),
    <<" ">> \o Repeat("x", TextLimit - 1) \o <<" ">> }

TagNames == { <<"B","U","T","T","O","N">>, <<"I","N","P","U","T">> }

Element(tag, attrs) == [a \in AttrNames |-> attrs[a]] @@ [tagName |-> tag]

\* Every combination of present and absent attributes.
CombinedElements ==
  { Element(tag, [a \in AttrNames |->
        IF a = "textContent" THEN text ELSE IF a \in present THEN Plain(a) ELSE Absent]) :
      tag \in TagNames, present \in SUBSET (AttrNames \ {"textContent"}), text \in Texts }

\* One attribute with the value s, alone or with all the others present.
ValuedElement(tag, attr, s, others) ==
  Element(tag, [a \in AttrNames |->
     IF a = attr THEN s ELSE IF others THEN Plain(a) ELSE Absent])

RandomSuffixes == { <<"k","3","x","9","q","z">>, <<"i">>, << >> }

InitTargetId ==
  /\ variant \in {"manager", "provider4"}
  /\ dom = << >>
  /\ elementRegistry = << >>
  /\ isCapturing = FALSE
  /\ returned = NothingReturned
  /\ held = NotHeld
  /\ url = 0
  /\ recordedUrl = (IF variant = "manager" THEN 0 ELSE -1)
  /\ histPush = 0
  /\ histReplace = 0
  /\ timers = << >>
  /\ sync = NoSync
  /\ react = NoReact
  /\ \/ \E e \in CombinedElements : call = [fn |-> "none", element |-> e]
     \/ \E tag \in TagNames, attr \in AttrNames, s \in Strings, others \in BOOLEAN :
          call = [fn |-> "none", element |-> ValuedElement(tag, attr, s, others)]
  /\ idle = 0
  /\ budget = 0
  /\ records = << >>
  /\ watcher = << >>
  /\ expect = {}
  /\ aborted = FALSE
  /\ ev = NoEvent

\* generateTargetId(call.element) is called.
GenerateTargetIdCall ==
  /\ call.fn = "none"
  /\ \E r \in (IF BaseIdSource(variant, call.element) = "random"
                 THEN RandomSuffixes ELSE {<< >>}) :
       call' = [fn |-> "generateTargetId", element |-> call.element,
                source |-> BaseIdSource(variant, call.element),
                result |-> GenerateTargetIdFor(variant, call.element, r)]
  /\ UNCHANGED <<variant, dom, elementRegistry, isCapturing, returned, held, url,
                 recordedUrl, watcher, histPush, histReplace, timers, records,
                 sync, react, expect, aborted, idle, budget, ev>>

NextTargetId == GenerateTargetIdCall

SpecTargetId == InitTargetId /\ [][NextTargetId]_vars

\* ------------------------------------------------------- interaction type

\* Words of the markup, as sequences of characters.
W_button == <<"b","u","t","t","o","n">>
W_a == <<"a">>
W_summary == <<"s","u","m","m","a","r","y">>
W_details == <<"d","e","t","a","i","l","s">>
W_label == <<"l","a","b","e","l">>
W_input == <<"i","n","p","u","t">>
W_select == <<"s","e","l","e","c","t">>
W_textarea == <<"t","e","x","t","a","r","e","a">>
W_option == <<"o","p","t","i","o","n">>
W_div == <<"d","i","v">>
W_checkbox == <<"c","h","e","c","k","b","o","x">>
W_radio == <<"r","a","d","i","o">>
W_submit == <<"s","u","b","m","i","t">>
W_reset == <<"r","e","s","e","t">>
W_image == <<"i","m","a","g","e">>
W_file == <<"f","i","l","e">>
W_range == <<"r","a","n","g","e">>
W_color == <<"c","o","l","o","r">>
W_date == <<"d","a","t","e">>
W_datetimeLocal == <<"d","a","t","e","t","i","m","e","-","l","o","c","a","l">>
W_month == <<"m","o","n","t","h">>
W_time == <<"t","i","m","e">>
W_week == <<"w","e","e","k">>
W_text == <<"t","e","x","t">>
W_link == <<"l","i","n","k">>
W_switch == <<"s","w","i","t","c","h">>
W_textbox == <<"t","e","x","t","b","o","x">>
W_searchbox == <<"s","e","a","r","c","h","b","o","x">>
W_listbox == <<"l","i","s","t","b","o","x">>
W_combobox == <<"c","o","m","b","o","b","o","x">>
W_slider == <<"s","l","i","d","e","r">>
W_tab == <<"t","a","b">>

\* String.prototype.toUpperCase, for element.tagName of an HTML element.
ToUpperChar(c) ==
  IF c \in Range(LowerCase)
    THEN UpperCase[CHOOSE i \in DOMAIN LowerCase : LowerCase[i] = c]
    ELSE c
ToUpperCase(s) == [i \in 1..Len(s) |-> ToUpperChar(s[i])]

\* determineInteractionType(element) of the utilities (v = "manager") and of
\* the providers.  element.role and element.type are what getAttribute
\* yields, Absent for none; onclick tells whether hasAttribute('onclick') or
\* hasAttribute('onClick'); cursor is getComputedStyle(element).cursor.
RoleType(v, role) ==
  IF v = "manager"
    THEN CASE role \in {W_button, W_link} -> "click"
           [] role \in {W_checkbox, W_radio, W_switch} -> "click"
           [] role \in {W_textbox, W_searchbox} -> "input"
           [] role \in {W_listbox, W_combobox} -> "select"
           [] role = W_slider -> "range"
           [] OTHER -> "none"
    ELSE IF role \in {W_button, W_link, W_checkbox, W_radio} THEN "click" ELSE "none"

InputType(v, type) ==
  IF v = "manager"
    THEN CASE type \in {W_checkbox, W_radio} -> "click"
           [] type \in {W_submit, W_button, W_reset, W_image} -> "click"
           [] type = W_file -> "upload"
           [] type = W_range -> "range"
           [] type = W_color -> "color"
           [] type \in {W_date, W_datetimeLocal, W_month, W_time, W_week} -> "date"
           [] OTHER -> "input"
    ELSE CASE type \in {W_checkbox, W_radio} -> "click"
           [] type \in {W_submit, W_button, W_reset} -> "click"
           [] OTHER -> "input"

DefaultType(v, element) ==
  LET role == ToLowerCase(element.role) IN
  IF RoleType(v, role) # "none" THEN RoleType(v, role)
  ELSE IF element.onclick THEN "click"
  ELSE IF element.cursor = "pointer" THEN "click"
  ELSE "interact"

TagTypeProvider(v, tagName, type, element) ==
  CASE tagName \in {W_button, W_a, W_summary} -> "click"
    [] tagName = W_input -> InputType("provider4", type)
    [] tagName = W_select -> "select"
    [] tagName = W_textarea -> "input"
    [] OTHER -> DefaultType("provider4", element)
TagType(v, tagName, type, element) ==
  IF v = "manager"
    THEN CASE tagName \in {W_button, W_a, W_summary, W_details} -> "click"
           [] tagName = W_input -> InputType(v, type)
           [] tagName = W_select -> "select"
           [] tagName = W_textarea -> "input"
           [] tagName = W_option -> "select"
           [] tagName = W_label -> "click"
           [] OTHER -> DefaultType(v, element)
    ELSE TagTypeProvider(v, tagName, type, element)

DetermineInteractionTypeFor(v, element) ==
  TagType(v, ToLowerCase(element.tagName), ToLowerCase(element.type), element)

\* ----- the elements determineInteractionType is applied to

InteractionTags ==
  { W_button, W_a, W_summary, W_details, W_label, W_input, W_select,
    W_textarea, W_option, W_div }
InteractionInputTypes ==
  { Absent, W_checkbox, W_radio, W_submit, W_button, W_reset, W_image, W_file,
    W_range, W_color, W_date, W_datetimeLocal, W_month, W_time, W_week, W_text,
    ToUpperCase(W_checkbox) }
InteractionRoles ==
  { Absent, W_button, W_link, W_checkbox, W_radio, W_switch, W_textbox,
    W_searchbox, W_listbox, W_combobox, W_slider, W_tab, ToUpperCase(W_slider) }
Cursors == {"pointer", "auto"}

InteractionElement(tag, type, role, oc, cur) ==
  [tagName |-> ToUpperCase(tag), type |-> type, role |-> role,
   onclick |-> oc, cursor |-> cur]

\* Everything but the utility call, as after construction.
InitNoPage ==
  /\ dom = << >>
  /\ elementRegistry = << >>
  /\ isCapturing = FALSE
  /\ returned = NothingReturned
  /\ held = NotHeld
  /\ url = 0
  /\ recordedUrl = (IF variant = "manager" THEN 0 ELSE -1)
  /\ histPush = 0
  /\ histReplace = 0
  /\ timers = << >>
  /\ sync = NoSync
  /\ react = NoReact
  /\ idle = 0
  /\ budget = 0
  /\ records = << >>
  /\ watcher = << >>
  /\ expect = {}
  /\ aborted = FALSE
  /\ ev = NoEvent

noPage == <<variant, dom, elementRegistry, isCapturing, returned, held, url,
            recordedUrl, watcher, histPush, histReplace, timers, records,
            sync, react, expect, aborted, idle, budget, ev>>

InitInteraction ==
  /\ variant \in {"manager", "provider4"}
  /\ InitNoPage
  /\ \E tag \in InteractionTags, type \in InteractionInputTypes,
        role \in InteractionRoles, oc \in BOOLEAN, cur \in Cursors :
       call = [fn |-> "none", element |-> InteractionElement(tag, type, role, oc, cur)]

\* determineInteractionType(call.element) is called.
DetermineInteractionTypeCall ==
  /\ call.fn = "none"
  /\ call' = [fn |-> "determineInteractionType", element |-> call.element,
              result |-> DetermineInteractionTypeFor(variant, call.element)]
  /\ UNCHANGED noPage

NextInteraction == DetermineInteractionTypeCall

SpecInteraction == InitInteraction /\ [][NextInteraction]_vars

\* -------------------------------------------- visibility, interactability

\* window.innerWidth and window.innerHeight.
InnerWidth == MaxCoord
InnerHeight == MaxCoord

\* parseFloat of a computed opacity, in tenths.
ParseFloatTenths(opacity) ==
  CASE opacity = "1"   -> 10
    [] opacity = "0.5" -> 5
    [] opacity = "0"   -> 0
    [] opacity = "0.0" -> 0

\* The argument null or undefined.
NoElement == [exists |-> FALSE]

\* rect.right, rect.bottom of getBoundingClientRect().
RectRight(element) == element.left + element.width
RectBottom(element) == element.top + element.height

\* The CSS test that hides an element; the providers' copies do not parse the
\* opacity.
HiddenByStyle(v, element) ==
  \/ element.display = "none"
  \/ element.visibility = "hidden"
  \/ element.opacity = "0"
  \/ v = "manager" /\ ParseFloatTenths(element.opacity) = 0
  \/ element.width = 0
  \/ element.height = 0

\* The viewport test: isInViewport of the utilities, and the negation of the
\* providers' outside-the-viewport condition.
InViewportProvider(v, element) ==
  ~ \/ RectBottom(element) < 0
    \/ element.top > InnerHeight
    \/ RectRight(element) < 0
    \/ element.left > InnerWidth
InViewport(v, element) ==
  IF v = "manager"
    THEN /\ element.top < InnerHeight
         /\ element.left < InnerWidth
         /\ RectBottom(element) > 0
         /\ RectRight(element) > 0
    ELSE InViewportProvider(v, element)

\* document.elementFromPoint(center.x, center.y) and the final test.  atPoint
\* tells what the document has at the center: nothing, the element, one of
\* its descendants, one of its ancestors, or an unrelated element.
NotCovered(v, element) ==
  CASE v = "manager"   -> element.atPoint \in {"self", "descendant", "ancestor"}
    [] v = "provider4" -> element.atPoint \in {"self", "descendant"}
    [] v = "provider3" -> TRUE

IsElementVisibleFor(v, element) ==
  IF ~element.exists THEN FALSE
  ELSE IF HiddenByStyle(v, element) THEN FALSE
  ELSE IF ~InViewport(v, element) THEN FALSE
  ELSE NotCovered(v, element)

\* The tests that make a visible element non-interactable.
DisabledProvider(v, element) ==
  \/ element.disabled = "true"
  \/ element.pointerEvents = "none"
  \/ element.ariaDisabled = "true"
Disabled(v, element) ==
  IF v = "manager"
    THEN \/ element.disabled = "true"
         \/ element.pointerEvents = "none"
         \/ element.ariaDisabled = "true"
         \/ element.disabledAttr
    ELSE DisabledProvider(v, element)

IsElementInteractableFor(v, element) ==
  IF ~element.exists THEN FALSE
  ELSE IF ~IsElementVisibleFor(v, element) THEN FALSE
  ELSE ~Disabled(v, element)

\* ----- the elements the two functions are applied to

Opacities == {"1", "0.5", "0", "0.0"}
Coords == (0 - 2)..(MaxCoord + 1)
Extents == 0..MaxCoord
AtPoints == {"null", "self", "descendant", "ancestor", "other"}

\* elementFromPoint yields null for a point outside the viewport.  The
\* center is compared doubled, to stay within the integers.
CenterOutside(left, top, width, height) ==
  \/ 2 * left + width < 0
  \/ 2 * left + width > 2 * InnerWidth
  \/ 2 * top + height < 0
  \/ 2 * top + height > 2 * InnerHeight

\* An element that is not disabled in any way.
Enabled == [disabled |-> "false", pointerEvents |-> "auto",
            ariaDisabled |-> "null", disabledAttr |-> FALSE]

Box(display, visibility, opacity, left, top, width, height, atPoint) ==
  [exists |-> TRUE, display |-> display, visibility |-> visibility,
   opacity |-> opacity, left |-> left, top |-> top, width |-> width,
   height |-> height, atPoint |-> atPoint]

PointsAt(left, top, width, height) ==
  IF CenterOutside(left, top, width, height) THEN {"null"} ELSE AtPoints


\* The disabled property reflects the attribute on a form control and is
\* undefined on any other element.
DisabledStates ==
  { [disabled |-> "true", disabledAttr |-> TRUE],
    [disabled |-> "false", disabledAttr |-> FALSE],
    [disabled |-> "undefined", disabledAttr |-> TRUE],
    [disabled |-> "undefined", disabledAttr |-> FALSE] }

\* Elements in the middle of the viewport, shown or hidden, covered or not,
\* with every way of being disabled.
InteractabilityElements ==
  {NoElement} \cup
  { Box(d, "visible", "1", 0, 0, w, 1, p)
      @@ [disabled |-> ds.disabled, disabledAttr |-> ds.disabledAttr,
          pointerEvents |-> pe, ariaDisabled |-> ad] :
      d \in {"block", "none"}, w \in {0, 1}, p \in AtPoints, ds \in DisabledStates,
      pe \in {"auto", "none"}, ad \in {"null", "true", "false"} }

InitVisible ==
  /\ variant \in Variants
  /\ InitNoPage
  /\ \/ call = [fn |-> "none", element |-> NoElement]
     \/ \E d \in {"block", "none"}, vis \in {"visible", "hidden"}, o \in Opacities,
           l \in Coords, t \in Coords, w \in Extents, h \in Extents :
          \E p \in PointsAt(l, t, w, h) :
            call = [fn |-> "none", element |-> Box(d, vis, o, l, t, w, h, p) @@ Enabled]

\* isElementVisible(call.element) is called.
IsElementVisibleCall ==
  /\ call.fn = "none"
  /\ call' = [fn |-> "isElementVisible", element |-> call.element,
              result |-> IsElementVisibleFor(variant, call.element)]
  /\ UNCHANGED noPage

NextVisible == IsElementVisibleCall

SpecVisible == InitVisible /\ [][NextVisible]_vars

InitInteractable ==
  /\ variant \in Variants
  /\ InitNoPage
  /\ \E e \in InteractabilityElements : call = [fn |-> "none", element |-> e]

\* isElementInteractable(call.element) is called.
IsElementInteractableCall ==
  /\ call.fn = "none"
  /\ call' = [fn |-> "isElementInteractable", element |-> call.element,
              visible |-> IsElementVisibleFor(variant, call.element),
              result |-> IsElementInteractableFor(variant, call.element)]
  /\ UNCHANGED noPage

NextInteractable == IsElementInteractableCall

SpecInteractable == InitInteractable /\ [][NextInteractable]_vars

\* ------------------------------------------------------------ element path

\* tagName.toLowerCase() for the tags of the page.
LowerTag(tagName) ==
  CASE tagName = "DIV"    -> "div"
    [] tagName = "LI"     -> "li"
    [] tagName = "BUTTON" -> "button"
    [] tagName = "SPAN"   -> "span"
    [] tagName = "BODY"   -> "body"
    [] tagName = "HTML"   -> "html"

\* Array.prototype.join.
RECURSIVE Join(_, _)
Join(parts, sep) ==
  IF parts = << >> THEN ""
  ELSE IF Len(parts) = 1 THEN parts[1]
  ELSE parts[1] \o sep \o Join(Tail(parts), sep)

\* className.split(/\s+/).filter(Boolean) is node.classNames; node.siblings
\* holds the tag names of parentNode.children in order and node.pos the place
\* of the node among them.
\* siblings = children.filter(child => child.tagName === currentNode.tagName)
SameTagSiblings(node) == { i \in DOMAIN node.siblings : node.siblings[i] = node.tagName }

\* The k of :nth-child(k), 0 if the segment gets none:
\* siblings.indexOf(currentNode) + 1 when siblings.length > 1.
NthChildAmongAll(node) ==
  IF Cardinality(SameTagSiblings(node)) > 1 THEN node.pos ELSE 0
NthChild(node) ==
  IF Cardinality(SameTagSiblings(node)) > 1
    THEN Cardinality({ i \in SameTagSiblings(node) : i <= node.pos })
    ELSE 0

ClassPart(node) ==
  IF node.classNames # << >> THEN "." \o Join(node.classNames, ".") ELSE ""
RolePart(node) ==
  IF node.role # "" THEN "[role=\"" \o node.role \o "\"]" ELSE ""
NthPart(node) ==
  IF NthChild(node) > 0 THEN ":nth-child(" \o ToString(NthChild(node)) \o ")" ELSE ""

\* The node and its parentNode chain up to the html element, nearest first.
BodyNode(id) ==
  [tagName |-> "BODY", id |-> id, classNames |-> << >>, role |-> "",
   siblings |-> <<"HEAD", "BODY">>, pos |-> 2]
HtmlNode(id) ==
  [tagName |-> "HTML", id |-> id, classNames |-> << >>, role |-> "",
   siblings |-> <<"HTML">>, pos |-> 1]
Ancestry(element) ==
  element.chain \o <<BodyNode(element.bodyId), HtmlNode(element.htmlId)>>

\* currentNode === document.body
IsBody(node) == node.tagName = "BODY"

\* The loop of computeElementPath from chain[i] upwards.  The loop ends at
\* the body, at the document above the html element, and at the first id.
RECURSIVE Walk(_, _, _)
Walk(chain, i, path) ==
  IF i > Len(chain) \/ IsBody(chain[i]) THEN path
  ELSE LET node == chain[i]
           tag == LowerTag(node.tagName)
       IN IF node.id # ""
            THEN <<tag \o "#" \o node.id>> \o path
            ELSE Walk(chain, i + 1,
                      <<tag \o ClassPart(node) \o RolePart(node) \o NthPart(node)>> \o path)

\* computeElementPath(element): the segments, to be joined by ' > '.
PathSegmentsPastIds(element) ==
  Walk([i \in 1..Len(Ancestry(element)) |-> [Ancestry(element)[i] EXCEPT !.id = ""]], 1, << >>)
PathSegments(element) == Walk(Ancestry(element), 1, << >>)
ComputeElementPath(element) == Join(PathSegments(element), " > ")

\* The compound selector a segment is when the path is read as a CSS
\* selector: the tag, the id of a tag#id segment, else the classes, the role
\* and the k of :nth-child(k) (0 for none) the segment was given.
Compound(node) ==
  IF node.id # ""
    THEN [tag |-> LowerTag(node.tagName), id |-> node.id, classNames |-> << >>,
          role |-> "", nth |-> 0]
    ELSE [tag |-> LowerTag(node.tagName), id |-> "", classNames |-> node.classNames,
          role |-> node.role, nth |-> NthChild(node)]

\* The elements the loop produced a segment for, outermost first.
Walked(element) ==
  LET k == Len(PathSegments(element))
  IN [j \in 1..k |-> Ancestry(element)[k - j + 1]]

\* The path as a CSS selector: its compounds, joined by child combinators.
Selector(element) == [j \in DOMAIN Walked(element) |-> Compound(Walked(element)[j])]

\* element.matches(compound): :nth-child(k) counts every child of the parent.
MatchesCompound(node, c) ==
  /\ LowerTag(node.tagName) = c.tag
  /\ c.id # "" => node.id = c.id
  /\ \A i \in DOMAIN c.classNames : \E j \in DOMAIN node.classNames :
        node.classNames[j] = c.classNames[i]
  /\ c.role # "" => node.role = c.role
  /\ c.nth # 0 => node.pos = c.nth

\* document.querySelectorAll(path) contains the element: every compound
\* matches the ancestor it stands for, each the parent of the next.
SelectsElement(element, selector) ==
  /\ Len(selector) = Len(Walked(element))
  /\ \A j \in DOMAIN selector : MatchesCompound(Walked(element)[j], selector[j])

\* ----- the trees computeElementPath is applied to

PathNodes ==
  UNION { { [tagName |-> tag, id |-> id, classNames |-> x.classNames, role |-> x.role,
              siblings |-> x.siblings, pos |-> x.pos] :
             id \in {"", "app"},
             x \in { [classNames |-> << >>, role |-> "", siblings |-> <<tag>>, pos |-> 1],
                     [classNames |-> <<"card", "open">>, role |-> "list",
                      siblings |-> <<tag, tag>>, pos |-> 2],
                     [classNames |-> << >>, role |-> "",
                      siblings |-> <<"SPAN", tag, tag>>, pos |-> 3] } } :
          tag \in {"DIV", "LI"} }

\* The ids of <body> and <html>.
BodyIds == {"", "page"}
HtmlIds == {"", "root"}

InitPath ==
  /\ variant = "manager"
  /\ InitNoPage
  /\ \E n \in 1..MaxDepth :
       \E c \in [1..n -> PathNodes], b \in BodyIds, h \in HtmlIds :
         call = [fn |-> "none", element |-> [chain |-> c, bodyId |-> b, htmlId |-> h]]

\* computeElementPath(call.element) is called.
ComputeElementPathCall ==
  /\ call.fn = "none"
  /\ call' = [fn |-> "computeElementPath", element |-> call.element,
              path |-> PathSegments(call.element),
              selector |-> Selector(call.element),
              result |-> ComputeElementPath(call.element)]
  /\ UNCHANGED noPage

NextPath == ComputeElementPathCall

SpecPath == InitPath /\ [][NextPath]_vars

\* ------------------------------------------------- without window/document

\* window.location.href where there is no window (server-side rendering).
NoWindow == 0 - 1
HasWindow == url # NoWindow

\* fetch() of a relative URL where there is no window: there is no fetch
\* (ReferenceError) or the URL cannot be parsed (TypeError); the promise of
\* the async function rejects either way.
FetchOutcomesAt(win, outcomes) == IF win THEN outcomes ELSE {"networkError"}

\* captureInteractiveElements(): the first line returns [] without a window.
CaptureAt(win, v, s) ==
  IF ~win THEN [s EXCEPT !.ret = ListOf(<< >>)]
  ELSE CaptureInteractiveElements(v, s)

\* findElementByTarget(targetId): document.querySelector by the marker.
FindElementByTarget(win, d, targetId) ==
  IF ~win THEN "null"
  ELSE IF \E n \in DOMAIN d : InDocument(d[n]) /\ d[n].target = targetId
    THEN "element" ELSE "null"

\* hasUrlChanged(): the result and this.currentUrl afterwards.  A read of
\* window where there is none is a ReferenceError.
HasUrlChangedUnguarded(win, recorded, current) ==
  IF ~win THEN [result |-> "throws", recorded |-> recorded]
  ELSE [result |-> IF recorded # current THEN "true" ELSE "false", recorded |-> current]
HasUrlChanged(win, recorded, current) ==
  IF ~win THEN [result |-> "false", recorded |-> recorded]
  ELSE [result |-> IF recorded # current THEN "true" ELSE "false", recorded |-> current]

\* getComponentMapManager(): null without a window; the singleton is null too.
GetComponentMapManager(win) == IF ~win THEN "null" ELSE "manager"

\* updatedMap.currentPath: window.location.pathname, or '/'.
RootPath == 0
CurrentPathAt(win, current) == IF win THEN current ELSE RootPath

TargetIds == {"ai-target-save", "ai-target-search", "ai-target-home"}

\* A manager constructed where there is no window: new ComponentMapManager().
InitServer ==
  /\ variant = "manager"
  /\ dom = << >>
  /\ elementRegistry = << >>
  /\ isCapturing = FALSE
  /\ returned = NothingReturned
  /\ held = NotHeld
  /\ url = NoWindow
  /\ recordedUrl = NoWindow
  /\ histPush = 0
  /\ histReplace = 0
  /\ timers = << >>
  /\ sync = NoSync
  /\ call = NoCall
  /\ react = NoReact
  /\ idle = 0
  /\ budget = 0
  /\ records = << >>
  /\ watcher = [w \in {1} |-> Unused]
  /\ expect = {}
  /\ aborted = FALSE
  /\ ev = NoEvent

serverFrame == <<variant, url, watcher, histPush, histReplace, records, sync, react>>

\* A consumer calls captureInteractiveElements().
ServerCapture ==
  /\ ~HasWindow
  /\ Input(ServerInputs)
  /\ \E s \in {CaptureAt(HasWindow, variant, Machine)} :
       Commit(s) /\ Event("capture", 0, s, FALSE)
  /\ call' = [fn |-> "captureInteractiveElements", result |-> "list"]
  /\ UNCHANGED serverFrame

\* A consumer calls findElementByTarget(id).
ServerFind ==
  /\ ~HasWindow
  /\ Input(ServerInputs)
  /\ \E id \in TargetIds :
       call' = [fn |-> "findElementByTarget", arg |-> id,
                result |-> FindElementByTarget(HasWindow, dom, id)]
  /\ \E s \in {Machine} : Commit(s) /\ Event("find", 0, s, FALSE)
  /\ UNCHANGED serverFrame

\* A consumer calls hasUrlChanged().
ServerHasUrlChanged ==
  /\ ~HasWindow
  /\ Input(ServerInputs)
  /\ \E r \in {HasUrlChanged(HasWindow, recordedUrl, url)} :
       /\ call' = [fn |-> "hasUrlChanged", result |-> r.result]
       /\ \E s \in {[Machine EXCEPT !.recordedUrl = r.recorded]} :
            Commit(s) /\ Event("hasUrlChanged", 0, s, FALSE)
  /\ UNCHANGED serverFrame

\* A consumer calls setupNavigationMonitoring(): the first line returns.
ServerSetup ==
  /\ ~HasWindow
  /\ Input(ServerInputs)
  /\ call' = [fn |-> "setupNavigationMonitoring", result |-> "undefined"]
  /\ \E s \in {Machine} : Commit(s) /\ Event("setup", 0, s, FALSE)
  /\ UNCHANGED serverFrame

\* A consumer calls getComponentMapManager().
ServerGetManager ==
  /\ ~HasWindow
  /\ Input(ServerInputs)
  /\ call' = [fn |-> "getComponentMapManager", result |-> GetComponentMapManager(HasWindow)]
  /\ \E s \in {Machine} : Commit(s) /\ Event("getManager", 0, s, FALSE)
  /\ UNCHANGED serverFrame

\* A consumer calls updateComponentMap(): the scan, then the GET is awaited.
ServerUpdateStart ==
  /\ ~HasWindow
  /\ sync.pc \in {"idle", "done"}
  /\ Input(ServerInputs)
  /\ \E s \in {CaptureAt(HasWindow, variant, Machine)} :
       /\ Commit(s)
       /\ Event("update", 0, s, FALSE)
       /\ sync' = [sync EXCEPT !.pc = "get", !.elements = s.ret,
                               !.get = "none", !.post = "none", !.result = "none"]
  /\ UNCHANGED <<variant, url, watcher, histPush, histReplace, records, call, react>>

\* fetchComponentMap() settles; the body is built and the POST is made.
ServerGetResponse ==
  /\ ~HasWindow
  /\ sync.pc = "get"
  /\ \E o \in FetchOutcomesAt(HasWindow, GetOutcomes) :
       sync' = [sync EXCEPT
                  !.pc = "post", !.get = o,
                  !.base = FetchComponentMap(o, ServerMap),
                  !.body = UpdatedMap(variant, FetchComponentMap(o, ServerMap),
                                      sync.elements, CurrentPathAt(HasWindow, url))]
  /\ \E s \in {Machine} : Commit(s) /\ Event("getResponse", 0, s, FALSE)
  /\ UNCHANGED <<variant, url, watcher, histPush, histReplace, records, call, react, budget>>

\* The POST settles; the promise of updateComponentMap() resolves.
ServerPostResponse ==
  /\ ~HasWindow
  /\ sync.pc = "post"
  /\ \E o \in FetchOutcomesAt(HasWindow, PostOutcomes) :
       /\ sync' = [sync EXCEPT !.pc = "done", !.post = o,
                               !.result = IF PostOk(o) THEN "true" ELSE "false"]
       /\ \E s \in {IF PostOk(o) THEN Machine ELSE OnSyncFailure(Machine)} :
            Commit(s) /\ Event("postResponse", 0, s, FALSE)
  /\ UNCHANGED <<variant, url, watcher, histPush, histReplace, records, call, react, budget>>

NextServer ==
  \/ ServerCapture
  \/ ServerFind
  \/ ServerHasUrlChanged
  \/ ServerSetup
  \/ ServerGetManager
  \/ ServerUpdateStart
  \/ ServerGetResponse
  \/ ServerPostResponse

SpecServer == InitServer /\ [][NextServer]_vars

\* --------------------------------------------------- mounting the provider

\* <AIAgentProvider disableOptimization={d}> after its first render, on a URL
\* that carries ai-agent=false or not: useState(true) gives isAIAgent, no
\* effect has run.  react.isAIAgent is the value the rendered closures see,
\* react.next the state after the updates queued so far.
Rendered(d, o) ==
  [pc |-> "checkOptOut", disableOptimization |-> d, optOut |-> o,
   isAIAgent |-> TRUE, next |-> TRUE, helpers |-> FALSE]

MountKinds == {"button", "switch"}

InitOptOut ==
  /\ variant = "provider3"
  /\ \E k \in MountKinds, st \in NodeStates : dom = [n \in {1} |-> NewNode(k, st, n)]
  /\ elementRegistry = << >>
  /\ isCapturing = FALSE
  /\ returned = NothingReturned
  /\ held = NotHeld
  /\ url = 0
  /\ recordedUrl = 0 - 1
  /\ histPush = 0
  /\ histReplace = 0
  /\ timers = << >>
  /\ sync = NoSync
  /\ call = NoCall
  /\ \E d \in BOOLEAN, o \in BOOLEAN : react = Rendered(d, o)
  /\ idle = 0
  /\ budget = 0
  /\ records = << >>
  /\ watcher = [w \in {1} |-> Unused]
  /\ expect = {}
  /\ aborted = FALSE
  /\ ev = NoEvent

mountFrame == <<variant, url, records, sync, call, budget>>

\* The first effect: checkOptOut() queues setIsAIAgent(false).
CheckOptOutEffect ==
  /\ react.pc = "checkOptOut"
  /\ react' = [react EXCEPT !.pc = "navigation",
                 !.next = IF react.disableOptimization \/ react.optOut THEN FALSE ELSE @]
  /\ \E s \in {Machine} : Commit(s) /\ Event("checkOptOut", 0, s, FALSE)
  /\ UNCHANGED <<mountFrame, watcher, histPush, histReplace>>

\* The navigation effect of the same commit: it returns at once if the
\* rendered isAIAgent is false, else it scans and sets the watcher up.
NavigationEffect ==
  /\ react.pc = "navigation"
  /\ IF react.isAIAgent
       THEN SetupEffect(1)
       ELSE /\ \E s \in {Machine} : Commit(s) /\ Event("setup", 0, s, FALSE)
            /\ UNCHANGED <<watcher, histPush, histReplace>>
  /\ react' = [react EXCEPT !.pc = "helpers"]
  /\ UNCHANGED mountFrame

\* The helpers effect: window.__AI_AGENT_HELPERS__ is assigned if the
\* rendered isAIAgent is true.  The effect has no cleanup.
InstallHelpers(isAgent, helpers) == IF isAgent THEN TRUE ELSE helpers

HelpersEffect ==
  /\ react.pc = "helpers"
  /\ react' = [react EXCEPT !.pc = "rerender",
                 !.helpers = InstallHelpers(react.isAIAgent, @)]
  /\ \E s \in {Machine} : Commit(s) /\ Event("helpers", 0, s, FALSE)
  /\ UNCHANGED <<mountFrame, watcher, histPush, histReplace>>

\* The queued state updates are rendered.  If isAIAgent changed, the cleanup
\* of the navigation effect runs and the effect runs again (isAIAgent can
\* only have become false: it returns at once); the helpers effect runs
\* again.
Rerender ==
  /\ react.pc = "rerender"
  /\ IF react.next # react.isAIAgent /\ 1 \in Active(watcher)
       THEN DisposeEffect(1)
       ELSE /\ \E s \in {Machine} : Commit(s) /\ Event("rerender", 0, s, FALSE)
            /\ UNCHANGED <<watcher, histPush, histReplace>>
  /\ react' = [react EXCEPT !.pc = "idle", !.isAIAgent = react.next,
                 !.helpers = InstallHelpers(react.next, @)]
  /\ UNCHANGED mountFrame

\* The page navigates once the provider is mounted.
MountedPushState == react.pc = "idle" /\ PushState(NavInputs)

NextOptOut ==
  \/ CheckOptOutEffect
  \/ NavigationEffect
  \/ HelpersEffect
  \/ Rerender
  \/ MountedPushState

SpecOptOut == InitOptOut /\ [][NextOptOut]_vars

\* ------------------------------------------- the exported updateComponentMap()
\* The keys of the object each provider assigns to window.__AI_AGENT_HELPERS__.
HelperKeys(v) ==
  CASE v = "provider4" ->
         {"findElement", "getComponentMap", "getRegisteredComponents",
          "getInteractiveElements", "captureElements", "updateComponentMap",
          "describeElement"}
    [] v = "provider3" ->
         {"findElement", "getInteractiveElements", "captureElements",
          "describeElement", "clickElement", "fillInput"}
    [] OTHER -> {}

\* window.__AI_AGENT_HELPERS__ is truthy.
HelpersInstalled == react.pc # "unmounted" /\ react.helpers

InitConvenience ==
  /\ variant \in {"provider4", "provider3"}
  /\ \E st \in [Nodes -> NavStates] :
       dom = [n \in Nodes |-> NewNode(SyncKind(n), st[n], n)]
  /\ elementRegistry = << >>
  /\ isCapturing = FALSE
  /\ returned = NothingReturned
  /\ held = NotHeld
  /\ url = 0
  /\ recordedUrl = 0 - 1
  /\ histPush = 0
  /\ histReplace = 0
  /\ timers = << >>
  /\ sync = NoSync
  /\ call = NoCall
  /\ react \in {NoReact, [Rendered(FALSE, FALSE) EXCEPT !.pc = "idle", !.helpers = TRUE]}
  /\ budget = 0
  /\ idle = 0
  /\ records = << >>
  /\ watcher = << >>
  /\ expect = {}
  /\ aborted = FALSE
  /\ ev = NoEvent

\* updateComponentMap() of the package entry point: the helper's method is
\* called when the helpers object is there, and calling a key the object does
\* not have throws a TypeError before any promise exists.
ConvenienceUpdate ==
  /\ sync.pc \in {"idle", "done"}
  /\ IF ~HelpersInstalled
       THEN /\ call' = [fn |-> "updateComponentMap", result |-> "promise", settled |-> "false"]
            /\ UNCHANGED <<dom, elementRegistry, isCapturing, returned, held, recordedUrl,
                           timers, sync, expect, aborted, idle, ev>>
       ELSE IF "updateComponentMap" \in HelperKeys(variant)
         THEN /\ UpdateEffect
              /\ call' = [fn |-> "updateComponentMap", result |-> "promise", settled |-> "pending"]
         ELSE /\ call' = [fn |-> "updateComponentMap", result |-> "throws", settled |-> "none"]
              /\ UNCHANGED <<dom, elementRegistry, isCapturing, returned, held, recordedUrl,
                           timers, sync, expect, aborted, idle, ev>>
  /\ UNCHANGED <<variant, url, watcher, histPush, histReplace, records, react, budget>>

NextConvenience ==
  \/ ConvenienceUpdate
  \/ PostResponse
  \/ CallCapture
  \/ PageChange

SpecConvenience == InitConvenience /\ [][NextConvenience]_vars

\* --------------------------------------- the provider's watcher left alone
\* The provider of part_004 after its first commit, the component map loaded:
\* the navigation effect is about to run.  Each run of the effect is a
\* watcher of its own.
QuietWatchers == MaxWatchers + 1

InitQuiet ==
  /\ variant = "provider4"
  /\ \E st \in [Nodes -> NavStates] :
       dom = [n \in Nodes |-> NewNode(SyncKind(n), st[n], n)]
  /\ elementRegistry = << >>
  /\ isCapturing = FALSE
  /\ returned = NothingReturned
  /\ held = NotHeld
  /\ url = 0
  /\ recordedUrl = 0 - 1
  /\ histPush = 0
  /\ histReplace = 0
  /\ timers = << >>
  /\ sync = NoSync
  /\ call = NoCall
  /\ react = [Rendered(FALSE, FALSE) EXCEPT !.pc = "navigation"]
  /\ idle = 0
  /\ budget = 0
  /\ records = << >>
  /\ watcher = [w \in 1..QuietWatchers |-> Unused]
  /\ expect = {}
  /\ aborted = FALSE
  /\ ev = NoEvent

\* useEffect(..., [isAIAgent, componentMap]) runs: after the first commit and
\* after every commit in which one of the two has changed.
QuietNavigationEffect ==
  /\ react.pc = "navigation"
  /\ \E w \in DOMAIN watcher : SetupEffect(w)
  /\ react' = [react EXCEPT !.pc = "idle"]
  /\ UNCHANGED mountFrame

\* A timer of the effect fires: captureInteractiveElements(), then
\* updateComponentMapOnServer(), which scans again and sends the POST.
QuietTimerFire ==
  /\ react.pc = "idle"
  /\ sync.pc # "post"
  /\ Due(timers) # {}
  /\ LET i == CHOOSE x \in Due(timers) : \A y \in Due(timers) : x <= y
         rest == IF timers[i].kind = "interval"
                   THEN [timers EXCEPT ![i].left = REFRESH_MS]
                   ELSE Remove(timers, i)
         s1 == CaptureInteractiveElements(variant, [Machine EXCEPT !.timers = rest])
         s2 == CaptureInteractiveElements(variant, s1)
     IN /\ IF s1.threw
             THEN Commit(s1) /\ UNCHANGED sync
           ELSE IF s2.threw
             THEN /\ Commit(OnSyncFailure([s2 EXCEPT !.threw = FALSE]))
                  /\ sync' = [sync EXCEPT !.pc = "done", !.get = "none", !.post = "none",
                                           !.result = "false"]
             ELSE /\ Commit(s2)
                  /\ sync' = [sync EXCEPT !.pc = "post", !.elements = s2.ret,
                                !.get = "none", !.post = "none", !.result = "none",
                                !.base = sync.componentMap,
                                !.body = UpdatedMap(variant, sync.componentMap, s2.ret, url)]
        /\ Event(timers[i].kind, timers[i].w, IF s1.threw THEN s1 ELSE s2, isCapturing)
  /\ UNCHANGED <<variant, url, watcher, histPush, histReplace, records, call, react, budget>>

\* The POST settles.  After an ok response setComponentMap(updatedMap) stores
\* a new object, so the commit that follows finds a dependency of the
\* navigation effect changed.
QuietPostResponse ==
  /\ react.pc = "idle"
  /\ sync.pc = "post"
  /\ \E o \in PostOutcomes :
       /\ PostEffect(o)
       /\ react' = IF PostOk(o) THEN [react EXCEPT !.pc = "cleanup"] ELSE react
  /\ UNCHANGED <<variant, url, watcher, histPush, histReplace, records, call, budget>>

\* The cleanup of the effect instance that is being replaced.
QuietCleanup ==
  /\ react.pc = "cleanup"
  /\ \E w \in Active(watcher) : DisposeEffect(w)
  /\ react' = [react EXCEPT !.pc = "navigation"]
  /\ UNCHANGED mountFrame

\* Nothing happens on the page: time passes until the next timer is due.
QuietAdvance == react.pc = "idle" /\ AdvanceToTimer

NextQuiet ==
  \/ QuietNavigationEffect
  \/ QuietTimerFire
  \/ QuietPostResponse
  \/ QuietCleanup
  \/ QuietAdvance

SpecQuiet == InitQuiet /\ [][NextQuiet]_vars

\* ------------------------------------------------ disposing the watchers
\* The disposer is a function the caller of setupNavigationMonitoring() keeps:
\* it can be called again after it has run.  A second call makes the same
\* assignments (removeEventListener and disconnect then do nothing).
DisposeAgain(max) ==
  \E w \in DOMAIN watcher :
    /\ variant = "manager"
    /\ watcher[w].status = "disposed"
    /\ Input(max)
    /\ DisposeEffect(w)
    /\ UNCHANGED <<variant, url, records, sync, call, react>>

NextDispose ==
  \/ SetupNavigationMonitoring(DisposeInputs)
  \/ Dispose(DisposeInputs)
  \/ DisposeAgain(DisposeInputs)
  \/ PushState(DisposeInputs)
  \/ ReplaceState(DisposeInputs)
  \/ Popstate(DisposeInputs)
  \/ AdvanceToTimer
  \/ TimerFire

SpecDispose == InitWatch /\ [][NextDispose]_vars

\* ------------------------------------- a navigation during updateComponentMap
\* updateComponentMap() is called; call keeps, for the history, the path the
\* page had when the call scanned it.
RaceUpdateStart ==
  /\ variant = "manager"
  /\ UpdateEffect
  /\ call' = [fn |-> "updateComponentMap", capturedAt |-> url]
  /\ UNCHANGED <<variant, url, watcher, histPush, histReplace, records, react, budget>>

InitRace ==
  /\ variant = "manager"
  /\ \E st \in [Nodes -> NavStates] :
       dom = [n \in Nodes |-> NewNode(SyncKind(n), st[n], n)]
  /\ elementRegistry = << >>
  /\ isCapturing = FALSE
  /\ returned = NothingReturned
  /\ held = NotHeld
  /\ InitWindow
  /\ records = << >>
  /\ watcher = << >>
  /\ expect = {}
  /\ aborted = FALSE
  /\ ev = NoEvent

NextRace ==
  \/ RaceUpdateStart
  \/ GetResponse
  \/ PostResponse
  \/ PushState(RaceInputs)
  \/ PageChange

SpecRace == InitRace /\ [][NextRace]_vars

\* ---------------------------------------- overlapping updateComponentMap()
\* The route handler of the update endpoint: the file keeps its components,
\* takes runtimeElements and version from the body and adds the body's path
\* to pageContexts.
MergedMap(existingMap, data) ==
  [ components |-> existingMap.components,
    runtimeElements |-> data.runtimeElements,
    version |-> data.version,
    pageContexts |-> existingMap.pageContexts \cup {ToString(data.currentPath)} ]

\* call.open holds the calls of updateComponentMap() in the order they were
\* made, call.persisted the component map file of the server.
NoOverlap == [fn |-> "updateComponentMap", open |-> << >>, persisted |-> ServerMap]

InitOverlap ==
  /\ variant = "manager"
  /\ \E st \in [Nodes -> NavStates] :
       dom = [n \in Nodes |-> NewNode(SyncKind(n), st[n], n)]
  /\ elementRegistry = << >>
  /\ isCapturing = FALSE
  /\ returned = NothingReturned
  /\ held = NotHeld
  /\ url = 0
  /\ recordedUrl = 0
  /\ histPush = 0
  /\ histReplace = 0
  /\ timers = << >>
  /\ sync = NoSync
  /\ call = NoOverlap
  /\ react = NoReact
  /\ idle = 0
  /\ budget = 0
  /\ records = << >>
  /\ watcher = << >>
  /\ expect = {}
  /\ aborted = FALSE
  /\ ev = NoEvent

overlapFrame == <<variant, url, watcher, histPush, histReplace, records, sync, react, budget>>

\* A timer callback or a caller starts one more updateComponentMap(): it
\* scans and sends its GET.  A scan that throws is caught: false.
OverlapStart ==
  /\ Len(call.open) < MaxCalls
  /\ \E s \in {CaptureInteractiveElements(variant, Machine)} :
       /\ IF s.threw
            THEN /\ Commit(OnSyncFailure([s EXCEPT !.threw = FALSE]))
                 /\ call' = [call EXCEPT !.open = Append(@,
                      [pc |-> "done", elements |-> NothingReturned,
                       body |-> UpdatedMap(variant, EmptyBaseline, NothingReturned, url),
                       result |-> "false"])]
            ELSE /\ Commit(s)
                 /\ call' = [call EXCEPT !.open = Append(@,
                      [pc |-> "get", elements |-> s.ret,
                       body |-> UpdatedMap(variant, EmptyBaseline, NothingReturned, url),
                       result |-> "none"])]
       /\ Event("update", 0, s, isCapturing)
  /\ UNCHANGED overlapFrame

\* The GET of call k settles: the body is built and the POST is sent.
OverlapGetResponse ==
  /\ \E k \in DOMAIN call.open, o \in GetOutcomes :
       /\ call.open[k].pc = "get"
       /\ call' = [call EXCEPT !.open[k].pc = "post",
                     !.open[k].body = UpdatedMap(variant, FetchComponentMap(o, call.persisted),
                                                 call.open[k].elements, url)]
  /\ \E s \in {Machine} : Commit(s) /\ Event("getResponse", 0, s, FALSE)
  /\ UNCHANGED overlapFrame

\* The POST of call k reaches the server, which writes the file, and the call
\* resolves; or the POST fails.
OverlapPostResponse ==
  /\ \E k \in DOMAIN call.open, o \in PostOutcomes :
       /\ call.open[k].pc = "post"
       /\ call' = [call EXCEPT
                     !.open[k].pc = "done",
                     !.open[k].result = IF PostOk(o) THEN "true" ELSE "false",
                     !.persisted = IF PostOk(o) THEN MergedMap(@, call.open[k].body) ELSE @]
       /\ \E s \in {IF PostOk(o) THEN Machine ELSE OnSyncFailure(Machine)} :
            Commit(s) /\ Event("postResponse", 0, s, FALSE)
  /\ UNCHANGED overlapFrame

\* The page changes between the calls.
OverlapPageChange ==
  \E n \in DOMAIN dom, st \in NavStates :
    /\ dom[n].state # st
    /\ \E s \in {[Machine EXCEPT !.dom = [dom EXCEPT ![n].state = st]]} :
         Commit(s) /\ Event("dom", 0, s, FALSE)
    /\ UNCHANGED <<overlapFrame, call>>

NextOverlap ==
  \/ OverlapStart
  \/ OverlapGetResponse
  \/ OverlapPostResponse
  \/ OverlapPageChange

SpecOverlap == InitOverlap /\ [][NextOverlap]_vars

\* ------------------------------------------ the observer and a scan's writes
\* observer.observe(document.body, {childList, subtree, attributes,
\* attributeFilter}): which records the observer is given.
AttributeFilter == {"disabled", "hidden", "style", "class"}

ObservesRecordUnfiltered(rec) == TRUE
ObservesRecord(rec) == rec.type = "childList" \/ rec.attributeName \in AttributeFilter

\* The mutation records the setAttribute calls of a scan amount to: d is the
\* document before the scan, d2 after it.
RECURSIVE WriteRecords(_, _, _)
WriteRecords(d, d2, n) ==
  IF n \notin DOMAIN d THEN << >>
  ELSE (IF d2[n].target # d[n].target
          THEN <<[type |-> "attributes", attributeName |-> "data-ai-target",
                  addedNodes |-> << >>, target |-> ItemOf(d[n])]>>
          ELSE << >>)
       \o (IF d2[n].action # d[n].action
          THEN <<[type |-> "attributes", attributeName |-> "data-ai-action",
                  addedNodes |-> << >>, target |-> ItemOf(d[n])]>>
          ELSE << >>)
       \o WriteRecords(d, d2, n + 1)

\* The records of a batch that reach the observers.
Queued(batch) == SelectSeq(batch, ObservesRecord)

\* The microtask after a callback that scanned: the connected observers get
\* the records of its writes that pass the filter, if there are any.
AfterScan(d, s) ==
  LET batch == Queued(WriteRecords(d, s.dom, 1))
  IN IF batch = << >> THEN s ELSE Observe(variant, InOrder(Active(watcher)), s, batch)

InitSelf ==
  /\ variant \in Variants
  /\ \E k \in MountKinds, st \in NodeStates : dom = [n \in {1} |-> NewNode(k, st, n)]
  /\ elementRegistry = << >>
  /\ isCapturing = FALSE
  /\ returned = NothingReturned
  /\ held = NotHeld
  /\ InitWindow
  /\ records = << >>
  /\ watcher = [w \in {1} |-> Unused]
  /\ expect = {}
  /\ aborted = FALSE
  /\ ev = NoEvent

selfFrame == <<variant, url, watcher, histPush, histReplace, sync, call, react, budget>>

\* A timer of the watcher fires and scans; records keeps what the scan wrote.
SelfTimerFire ==
  /\ Due(timers) # {}
  /\ LET i == CHOOSE x \in Due(timers) : \A y \in Due(timers) : x <= y
         rest == IF timers[i].kind = "interval"
                   THEN [timers EXCEPT ![i].left = REFRESH_MS]
                   ELSE Remove(timers, i)
         s1 == TimerBody(variant, timers[i].kind, [Machine EXCEPT !.timers = rest])
     IN /\ \E s \in {AfterScan(dom, s1)} :
             Commit(s) /\ Event(timers[i].kind, timers[i].w, s, isCapturing)
        /\ records' = WriteRecords(dom, s1.dom, 1)
  /\ UNCHANGED selfFrame

\* captureInteractiveElements() is called while the watcher observes.
SelfCapture ==
  /\ Active(watcher) # {}
  /\ LET s1 == CaptureInteractiveElements(variant, Machine)
     IN /\ \E s \in {AfterScan(dom, s1)} :
             Commit(s) /\ Event("capture", 0, s, isCapturing)
        /\ records' = WriteRecords(dom, s1.dom, 1)
  /\ UNCHANGED selfFrame

NextSelf ==
  \/ SetupNavigationMonitoring(BatchInputs)
  \/ DomChangeObserved(BatchInputs, NodeStates)
  \/ SelfTimerFire
  \/ SelfCapture
  \/ AdvanceToTimer

SpecSelf == InitSelf /\ [][NextSelf]_vars

\* document.querySelector('[data-ai-target="..."]'): the first node in
\* document order that carries the targetId, 0 for null.
QuerySelectorTarget(d, targetId) ==
  LET hits == { n \in DOMAIN d : InDocument(d[n]) /\ d[n].target = targetId }
  IN IF hits = {} THEN 0 ELSE CHOOSE n \in hits : \A m \in hits : n <= m

\* ----------------------------------------------------------------- claims

\* C1 (as claimed): the registry holds a descriptor for a targetId exactly when
\* a node carrying that targetId qualified at the most recent scan (and holds
\* none after a reset).  Stated for the runs in which no scan threw, so that a
\* violation does not rest on a scan that stopped part-way.
C1_RegistryIsLastScan ==
  ~aborted => DOMAIN elementRegistry = expect

\* C2 (as claimed): between callbacks the registry is the complete result of
\* one scan: its descriptors are never partly refreshed and partly stale, and
\* none of them was written by a scan that stopped part-way.
C2_AtomicReplace ==
  /\ \A a, b \in DOMAIN elementRegistry :
        elementRegistry[a].fresh = elementRegistry[b].fresh
  /\ aborted => \A a \in DOMAIN elementRegistry : ~elementRegistry[a].fresh

\* C5: a call to captureInteractiveElements() made while the in-flight guard
\* is set traverses nothing and changes neither a marker attribute nor the
\* registry.
C5_GuardedCallIgnored ==
  (ev.op = "capture" /\ ev.guarded) => (ev.scans = 0 /\ ~ev.changed)

\* C5's case: a call arrived while the guard was set.
C5_Witness == ev.op = "capture" /\ ev.guarded


\* C3 (as claimed): once a watcher's disposer has run, no scan executes again
\* on behalf of that watcher.
C3_NoScanAfterDispose ==
  (ev.scans > 0 /\ ev.w # 0) => watcher[ev.w].status # "disposed"

\* C4 (as claimed): at most one debounce timer is pending at a time, and when
\* it fires the burst of mutations it closes has caused exactly one scan.
C4_OneScanPerBurst ==
  /\ Cardinality({ i \in DOMAIN timers : timers[i].kind = "debounce" }) <= 1
  /\ ev.op = "debounce" => ev.scans = 1

HistoryOps == {"pushState", "replaceState", "popstate"}

\* A URL change has just been detected: the settle timer is pending in full.
SettlePending ==
  \E i \in DOMAIN timers :
    timers[i].kind = "nav" /\ timers[i].left = NavDelay(variant)

\* C6 (as claimed): the registry is cleared as soon as a URL change is
\* detected, so it holds no descriptor while the settle delay starts.
C6_ClearedOnDetection ==
  (ev.op \in HistoryOps /\ SettlePending) => elementRegistry = << >>

\* C6 (amended): the order is wait, clear, scan.  A history call, detecting a
\* URL change or not, leaves the registry and the DOM as they were; the manager
\* clears the registry when the settle timer fires, just before the scan, so
\* after that callback every descriptor left was written by its scans.
C6_WaitClearScan ==
  /\ ev.op \in HistoryOps => ~ev.changed
  /\ (variant = "manager" /\ ev.op = "nav") =>
        \A id \in DOMAIN elementRegistry : elementRegistry[id].fresh

\* C6 witness: a URL change was detected and the registry still holds the
\* descriptors of the page that was showing.
C6_Witness ==
  /\ variant = "manager"
  /\ ev.op = "pushState"
  /\ SettlePending
  /\ elementRegistry # << >>

\* C7 (as claimed): after the scan that follows a detected URL change, the
\* registry holds no descriptor of a node that does not qualify in the DOM.
C7_RebuiltAfterNavigation ==
  ev.op = "nav" =>
    \A id \in DOMAIN elementRegistry :
      /\ elementRegistry[id].node \in DOMAIN dom
      /\ Qualifies(variant, dom[elementRegistry[id].node])
      /\ TargetOf(dom[elementRegistry[id].node]) = id

\* C8 (as claimed): while a watcher is active a scan runs at least once per
\* refresh interval, DOM mutations or not.
C8_PeriodicScan ==
  Active(watcher) # {} => idle <= REFRESH_MS

\* C10 (as claimed): every pushState, replaceState and popstate invokes the
\* URL-change handler of every active watcher.
C10_HistoryInvokesHandlers ==
  ev.op \in HistoryOps => Active(watcher) \subseteq ev.invoked


\* The batch holds an added element node that matches or contains an
\* interactive selector, or an attribute change on a node that matches one.
BatchQualifies(v, ms) ==
  \E i \in DOMAIN ms :
    \/ /\ ms[i].type = "childList"
       /\ \E j \in DOMAIN ms[i].addedNodes :
            /\ ItemIsElement(ms[i].addedNodes[j])
            /\ ItemMatches(v, ms[i].addedNodes[j]) \/ ItemContains(v, ms[i].addedNodes[j])
    \/ /\ ms[i].type = "attributes"
       /\ ItemIsElement(ms[i].target)
       /\ ItemMatches(v, ms[i].target)

\* C9: a delivered batch schedules a re-scan (cancelling the pending debounce
\* timer and starting a new one) if and only if it holds an added element that
\* matches or contains an interactive selector or an attribute change on an
\* element that matches one; any other batch leaves the timers as they were.
C9_BatchSchedulesIffQualifies ==
  [][ (ev'.op = "delivery" /\ Active(watcher) = {1}) =>
        timers' = IF BatchQualifies(variant, records)
                    THEN Append(ClearSlot(timers), Timer("debounce", 1, DEBOUNCE_MS, TRUE))
                    ELSE timers ]_vars

\* C9 witness: a batch whose first record does not qualify and a later one
\* does was delivered while a debounce timer was pending, and restarted it.
C9_Witness ==
  /\ ev.op = "delivery"
  /\ Active(watcher) = {1}
  /\ Len(records) > 1
  /\ ~BatchQualifies(variant, SubSeq(records, 1, 1))
  /\ BatchQualifies(variant, records)
  /\ \E i \in DOMAIN timers : timers[i].kind = "debounce" /\ timers[i].left = DEBOUNCE_MS

\* C11 (as claimed): mounting a watcher scans exactly once, and not before the
\* settle delay: setup itself scans nothing and the initial timer scans once.
C11_OneScanAfterSettle ==
  /\ ev.op = "setup" => ev.scans = 0
  /\ ev.op = "initial" => ev.scans = 1

\* C12 (as claimed): the list a scan returns holds at most one descriptor per
\* targetId (the registry, keyed by targetId, cannot hold two).
C12_UniqueTargetIds ==
  \A i, j \in DOMAIN returned.items :
    i # j => returned.items[i].aiTarget # returned.items[j].aiTarget

\* C13: a scan leaves a data-ai-target and a data-ai-action the node already
\* carries as they are, and the descriptor it stores for the node records
\* those values, also when the targetId came from the random fallback.
C13_MarkersAuthoritative ==
  [][ \A n \in DOMAIN dom :
        /\ dom[n].target # "" => dom'[n].target = dom[n].target
        /\ dom[n].action # "" => dom'[n].action = dom[n].action
        /\ \A id \in DOMAIN elementRegistry' :
             (elementRegistry'[id].node = n /\ elementRegistry'[id].fresh) =>
               /\ dom[n].target # "" => id = dom[n].target
               /\ dom[n].action # "" => elementRegistry'[id].aiAction = dom[n].action
    ]_vars

\* C13 witness: an icon-only button whose targetId came from Math.random has
\* been scanned again, and neither the document nor the registry changed.
C13_Witness ==
  /\ dom[1].kind = "icon"
  /\ dom[1].rand > RandStep
  /\ ev.op = "capture" /\ ev.scans = 1 /\ ~ev.changed
  /\ dom[1].target \in DOMAIN elementRegistry

\* C14 (as claimed): the object a consumer obtained from getElementRegistry()
\* is never changed by a later scan or reset: it holds what it held when obtained.
C14_ConsumersHoldCopies ==
  held.has => held.now = held.then

\* C15: the promise of updateComponentMap() never rejects: whatever the scan,
\* the GET and the POST did, it resolves to true exactly when the POST
\* returned an ok response, and to false otherwise.
C15_ResolvesToPostOk ==
  sync.pc = "done" =>
    sync.result = (IF sync.post = "ok" THEN "true" ELSE "false")

\* C15 witness: the GET delivered an unparsable body, the POST a non-ok
\* status, and the call resolved to false.
C15_Witness ==
  /\ sync.pc = "done"
  /\ sync.get = "badBody"
  /\ sync.post = "notOk"
  /\ sync.result = "false"

\* The targetIds of the descriptors in a returned value.
TargetIdsIn(r) == { r.items[i].aiTarget : i \in DOMAIN r.items }

\* C16 (as claimed): the body sent is the fetched snapshot with
\* runtimeElements replaced by exactly the descriptors the registry holds when
\* the POST is sent, plus currentPath; the other fields are passed through.
C16_BodyIsCurrentSnapshot ==
  (sync.pc = "post" /\ ev.op \in {"update", "getResponse"}) =>
    /\ sync.body.runtimeElements.value = "list"
    /\ TargetIdsIn(sync.body.runtimeElements) = DOMAIN elementRegistry
    /\ Len(sync.body.runtimeElements.items) = Cardinality(DOMAIN elementRegistry)
    /\ sync.body.currentPath = url
    /\ sync.body.components = sync.base.components
    /\ sync.body.pageContexts = sync.base.pageContexts
    /\ sync.body.version = sync.base.version

\* C17: a GET or POST that fails leaves the registry and the document
\* exactly as they were: nothing is removed or rolled back.
C17_FailedSyncKeepsRegistry ==
  [][ ( \/ ev'.op = "getResponse" /\ sync'.get # "ok"
        \/ ev'.op = "postResponse" /\ sync'.post # "ok" ) =>
      (elementRegistry' = elementRegistry /\ dom' = dom /\ isCapturing' = isCapturing)
    ]_vars

\* C17 witness: the POST failed on the network while the registry held descriptors.
C17_Witness ==
  /\ ev.op = "postResponse"
  /\ sync.post = "networkError"
  /\ elementRegistry # << >>

\* C18: when the GET fails, fetchComponentMap() resolves to the empty baseline
\* and the POST is still sent, built on that baseline with the elements of the scan.
C18_EmptyBaselineOnFailedGet ==
  /\ ev.op = "getResponse" => sync.pc = "post"
  /\ (sync.pc = "post" /\ sync.get \in GetOutcomes \ {"ok"}) =>
        /\ sync.base = EmptyBaseline
        /\ sync.body.components = << >>
        /\ sync.body.pageContexts = {}
        /\ sync.body.runtimeElements = sync.elements

\* C18 witness: the GET returned a non-ok status and the POST went out with
\* the descriptors of the scan.
C18_Witness ==
  /\ sync.pc = "post"
  /\ sync.get = "notOk"
  /\ sync.elements.items # << >>
  /\ sync.body.runtimeElements = sync.elements


\* The element with every naming attribute but a removed.
OnlySource(element, a) ==
  [b \in AttrNames |->
     IF b = (IF a = "text" THEN "textContent" ELSE a) THEN element[b] ELSE Absent]
  @@ [tagName |-> element.tagName]

\* C19: the utilities' generateTargetId takes the slug from the first usable
\* source in the order id, data-testid, aria-label, name, placeholder, trimmed
\* text shorter than 20 characters, and from the tag name and a random suffix
\* when there is none: the result is the one the element would give with
\* every other attribute removed.  An id beats an aria-label; an input with
\* only name="email" yields ai-target-email.
C19_FirstPresentSourceWins ==
  (variant = "manager" /\ call.fn = "generateTargetId") =>
    LET e == call.element
        order == <<"id", "dataTestId", "ariaLabel", "name", "placeholder", "text">>
        hits == { i \in 1..6 : SourceUsable(e, order[i]) }
        first == order[CHOOSE i \in hits : \A j \in hits : i <= j]
    IN /\ IF hits = {}
            THEN /\ call.source = "random"
                 /\ \E r \in RandomSuffixes :
                      call.result = GenerateTargetIdFor("manager", OnlySource(e, "none"), r)
            ELSE /\ call.source = first
                 /\ call.result = GenerateTargetIdFor("manager", OnlySource(e, first), << >>)
       /\ (e.id = Plain("id") /\ e.ariaLabel = Plain("ariaLabel"))
            => call.result = Prefix \o <<"n","a","v">>
       /\ e = OnlySource(e, "name") /\ e.name = Plain("name")
            => call.result = Prefix \o <<"e","m","a","i","l">>

\* C19's case: no id and no data-testid, but an aria-label, a name, a
\* placeholder and text: the aria-label gives the slug.
C19_Witness ==
  /\ variant = "manager" /\ call.fn = "generateTargetId"
  /\ call.element.id = Absent /\ call.element.dataTestId = Absent
  /\ call.element.ariaLabel = Plain("ariaLabel") /\ call.element.name = Plain("name")
  /\ call.element.placeholder = Plain("placeholder")
  /\ call.element.textContent = Plain("textContent")
  /\ call.result = Prefix \o <<"c","l","o","s","e">>

\* The normalization as claimed: whitespace runs to one hyphen, lowercase,
\* characters outside [a-z0-9-_] stripped (a hyphen takes their place, which
\* is the reading closest to the code), repeated hyphens collapsed, hyphens at
\* either end removed.
SlugChars == Range(LowerCase) \cup Digits \cup {"-", "_"}
StripOutside(s) == [i \in 1..Len(s) |-> IF s[i] \in SlugChars THEN s[i] ELSE "-"]
RECURSIVE TrimHyphens(_)
TrimHyphens(s) ==
  IF s # << >> /\ Head(s) = "-" THEN TrimHyphens(Tail(s))
  ELSE IF s # << >> /\ s[Len(s)] = "-" THEN TrimHyphens(SubSeq(s, 1, Len(s) - 1))
  ELSE s
ClaimedNormalize(s) ==
  TrimHyphens(ReplaceRuns(StripOutside(ToLowerCase(ReplaceRuns(s, Whitespace, 1))), {"-"}, 2))
SlugOf(targetId) == SubSeq(targetId, Len(Prefix) + 1, Len(targetId))

\* C20 (as claimed): whichever attribute or text gives the slug, the part of
\* the targetId after ai-target- is the normalization of that source; it is
\* lowercase, has only characters of [a-z0-9-_], no two hyphens in a row and
\* no hyphen at either end.
C20_SlugIsNormalized ==
  (call.fn = "generateTargetId" /\ call.source # "random") =>
    LET slug == SlugOf(call.result) IN
    /\ slug = ClaimedNormalize(SourceValue(call.element, call.source))
    /\ \A i \in 1..Len(slug) : slug[i] \in SlugChars
    /\ \A i \in 1..(Len(slug) - 1) : ~(slug[i] = "-" /\ slug[i + 1] = "-")
    /\ slug = << >> \/ (Head(slug) # "-" /\ slug[Len(slug)] # "-")


\* The priority table of the specification.
TableType(element) ==
  LET tag == ToLowerCase(element.tagName)
      type == ToLowerCase(element.type)
      role == ToLowerCase(element.role)
  IN CASE tag \in {W_button, W_a, W_summary, W_details, W_label} -> "click"
       [] tag = W_input /\ type \in {W_checkbox, W_radio, W_submit, W_button, W_reset, W_image} -> "click"
       [] tag = W_input /\ type = W_file -> "upload"
       [] tag = W_input /\ type = W_range -> "range"
       [] tag = W_input /\ type = W_color -> "color"
       [] tag = W_input /\ type \in {W_date, W_datetimeLocal, W_month, W_time, W_week} -> "date"
       [] tag \in {W_input, W_textarea} -> "input"
       [] tag \in {W_select, W_option} -> "select"
       [] role \in {W_button, W_link, W_checkbox, W_radio, W_switch} -> "click"
       [] role \in {W_textbox, W_searchbox} -> "input"
       [] role \in {W_listbox, W_combobox} -> "select"
       [] role = W_slider -> "range"
       [] element.onclick \/ element.cursor = "pointer" -> "click"
       [] OTHER -> "interact"

\* C21 (as claimed): for every tag, type, role, inline click handler and
\* cursor, determineInteractionType returns the value of the priority table.
C21_FollowsPriorityTable ==
  call.fn = "determineInteractionType" => call.result = TableType(call.element)


\* C22 (as claimed): isElementVisible is true exactly when the node exists,
\* is not display:none, not visibility:hidden, its opacity is not zero, its
\* box has positive width and height, top < viewport height, left < viewport
\* width, bottom > 0, right > 0, and the element at its center is the node,
\* a descendant or an ancestor of it.
C22_VisibleIffAllTests ==
  call.fn = "isElementVisible" =>
    LET e == call.element IN
    call.result =
      ( /\ e.exists
        /\ e.display # "none" /\ e.visibility # "hidden"
        /\ ParseFloatTenths(e.opacity) # 0
        /\ e.width > 0 /\ e.height > 0
        /\ e.top < InnerHeight /\ e.left < InnerWidth
        /\ e.top + e.height > 0 /\ e.left + e.width > 0
        /\ e.atPoint \in {"self", "descendant", "ancestor"} )

\* C23 (as claimed): isElementInteractable is true exactly when
\* isElementVisible is true and the element has no disabled property set, no
\* pointer-events: none, no aria-disabled="true" and no disabled attribute.
C23_InteractableIffVisibleAndEnabled ==
  call.fn = "isElementInteractable" =>
    LET e == call.element IN
    call.result =
      ( /\ e.exists
        /\ call.visible
        /\ e.disabled # "true"
        /\ e.pointerEvents # "none"
        /\ e.ariaDisabled # "true"
        /\ ~e.disabledAttr )


\* The node and its ancestors, the body and the html element included, as
\* [tag, id] pairs, nearest first.
Lineage(element) ==
  [i \in 1..Len(element.chain) |->
     [tag |-> LowerTag(element.chain[i].tagName), id |-> element.chain[i].id]]
  \o << [tag |-> "body", id |-> element.bodyId], [tag |-> "html", id |-> element.htmlId] >>

\* The position in line of the nearest entry that has an id, 0 for none.
NearestWithId(line) ==
  IF \A i \in DOMAIN line : line[i].id = "" THEN 0
  ELSE CHOOSE i \in DOMAIN line :
         line[i].id # "" /\ \A j \in DOMAIN line : line[j].id # "" => i <= j

\* C24 (as claimed): when the node or one of its ancestors has an id, the path
\* starts with the tag#id of the nearest such element, nothing above it
\* contributes a segment, and a node with an id of its own gives one segment.
C24_StopsAtNearestId ==
  call.fn = "computeElementPath" =>
    LET line == Lineage(call.element)
        k == NearestWithId(line)
    IN k > 0 =>
         /\ Len(call.path) = k
         /\ call.path[1] = line[k].tag \o "#" \o line[k].id
         /\ call.result = Join(call.path, " > ")

\* C24 (amended): the walk covers the node and its ancestors below
\* document.body only.  When one of those has an id, the path starts with the
\* tag#id of the nearest one and has one segment per element from it down to
\* the node; an id on <body> or <html> is never used, and without an id below
\* the body the path has one segment for every element below the body.
C24_StopsAtNearestIdBelowBody ==
  call.fn = "computeElementPath" =>
    LET line == SubSeq(Lineage(call.element), 1, Len(call.element.chain))
        k == NearestWithId(line)
    IN /\ call.result = Join(call.path, " > ")
       /\ IF k > 0
            THEN /\ Len(call.path) = k
                 /\ call.path[1] = line[k].tag \o "#" \o line[k].id
            ELSE Len(call.path) = Len(line)

\* C24's case: the node has no id, its parent has one, and so has the
\* grandparent: the path has two segments and starts at the parent.
C24_Witness ==
  /\ call.fn = "computeElementPath"
  /\ Len(call.element.chain) = 3
  /\ call.element.chain[1].id = ""
  /\ call.element.chain[2].id = "app" /\ call.element.chain[2].tagName = "LI"
  /\ call.element.chain[3].id = "app"
  /\ Len(call.path) = 2 /\ call.path[1] = "li#app"


C26_DisabledFromTheStart ==
  (react.pc # "unmounted" /\ (react.disableOptimization \/ react.optOut)) =>
    /\ ev.scans = 0
    /\ \A n \in DOMAIN dom : dom[n].target = "" /\ dom[n].action = ""
    /\ elementRegistry = << >>
    /\ histPush = 0 /\ histReplace = 0
    /\ ~react.helpers

\* C27: the exported updateComponentMap() never throws; it returns a promise,
\* with the helpers object absent and with the helpers any provider installed.
C27_NeverThrows ==
  call.fn = "updateComponentMap" => call.result = "promise"


\* C28: the in-flight guard is always released: once a call of
\* captureInteractiveElements() has returned or thrown, isCapturing is false,
\* and so the call after a throwing one traverses the page again.
C28_GuardReleased ==
  /\ ~isCapturing
  /\ (ev.op = "capture" /\ aborted) => ~ev.guarded


\* C29 (as claimed): with the provider mounted, no DOM mutation and no
\* navigation, the watcher set up at mount is never torn down and set up
\* again, a successful sync included: after its initial scan only its
\* 30-second interval scans, a refresh period after the scan before.
C29_Quiescent ==
  /\ \A w \in DOMAIN watcher : watcher[w].status # "disposed"
  /\ ev.scans > 0 => ev.w = 1 /\ ev.op \in {"initial", "interval"}


\* Every watcher that was set up has been disposed.
AllDisposed ==
  /\ \E w \in DOMAIN watcher : watcher[w].status = "disposed"
  /\ Active(watcher) = {}

\* C30 (as claimed): once every watcher that was set up has been disposed, in
\* whatever order and also when a disposer ran twice, history.pushState and
\* history.replaceState are the original functions again and a later history
\* call runs no watcher's URL-change handler.
C30_HistoryRestored ==
  AllDisposed =>
    /\ histPush = 0 /\ histReplace = 0
    /\ ev.op \in HistoryOps => ev.invoked = {}


\* Watcher w has a debounced scan pending.
DebouncePending(ts, w) == \E i \in DOMAIN ts : ts[i].kind = "debounce" /\ ts[i].w = w

\* C31 (as claimed): the pending debounced scan of a watcher goes away only
\* because it fires, because a later qualifying batch of the same watcher
\* replaces it, or because the watcher's own disposer runs; the callback or
\* the disposer of another watcher never cancels it.
C31_DebounceOwnedByWatcher ==
  [][ \A w \in DOMAIN watcher :
        (DebouncePending(timers, w) /\ ~DebouncePending(timers', w)) =>
          (ev'.w = w /\ ev'.op \in {"debounce", "dispose"}) ]_vars


\* C32 (as claimed): in every POST that updateComponentMap() sends, the
\* currentPath of the body is the path of the page whose elements the call
\* captured, whatever navigation happened while the GET was awaited.
C32_BodyDescribesOnePage ==
  (call.fn = "updateComponentMap" /\ sync.pc = "post") =>
    sync.body.currentPath = call.capturedAt


\* C33 (as claimed): when overlapping updateComponentMap() calls have all
\* completed successfully, the runtimeElements the server keeps are those of
\* the call that scanned last, in whatever order the GETs and POSTs settled.
C33_NewestSnapshotPersisted ==
  ( /\ Len(call.open) > 1
    /\ \A k \in DOMAIN call.open :
         call.open[k].pc = "done" /\ call.open[k].result = "true" ) =>
    call.persisted.runtimeElements = call.open[Len(call.open)].elements


\* C34: a scan does not trigger itself: the data-ai-target and data-ai-action
\* attributes a scan writes never make the mutation observer schedule a
\* debounced scan; every debounce timer pending after a step that scanned
\* was pending before it.
C34_ScanDoesNotTriggerItself ==
  [][ ev'.scans > 0 =>
        \A i \in DOMAIN timers' :
          timers'[i].kind = "debounce" => \E j \in DOMAIN timers : timers[j] = timers'[i]
    ]_vars

\* C34's case: with the watcher observing, a scan has just written marker
\* attributes on an element the observer's selectors match, and no debounced
\* scan is pending.
C34_Witness ==
  /\ Active(watcher) = {1}
  /\ ev.scans > 0 /\ ev.changed
  /\ \E i \in DOMAIN records :
       records[i].attributeName = "data-ai-target" /\ ItemMatches(variant, records[i].target)
  /\ ~DebouncePending(timers, 1)


\* The number of settle timers pending.
SettleTimers(ts) == Cardinality({ i \in DOMAIN ts : ts[i].kind = "nav" })

\* Nothing was recorded yet by the one watcher that was ever set up: the URL
\* has been the same since it was mounted.
FirstSinceMount ==
  /\ watcher[1].status = "active"
  /\ \A w \in DOMAIN watcher : w # 1 => watcher[w].status = "unused"

\* C35 (as claimed): a pushState, replaceState or popstate that runs the
\* URL-change handler schedules one settle timer when the URL differs from the
\* URL last recorded (at first the URL at construction or mount), none when
\* it is the same, and the new URL is the recorded one afterwards.
C35_SettleIffUrlChanged ==
  [][ ( /\ ev'.op \in HistoryOps /\ ev'.invoked # {}
        /\ recordedUrl = 0 - 1 => FirstSinceMount ) =>
      LET last == IF recordedUrl = 0 - 1 THEN url ELSE recordedUrl
      IN /\ SettleTimers(timers') - SettleTimers(timers) = (IF url' # last THEN 1 ELSE 0)
         /\ recordedUrl' = url'
    ]_vars


\* C36 (as claimed): after a scan, every node that qualified has a descriptor
\* in the registry under its targetId, captured from that node, and
\* findElementByTarget of that targetId returns the node.
C36_LookupRoundTrip ==
  (ev.op = "capture" /\ ev.scans > 0 /\ ~isCapturing) =>
    \A n \in DOMAIN dom :
      Qualifies(variant, dom[n]) =>
        /\ dom[n].target \in DOMAIN elementRegistry
        /\ elementRegistry[dom[n].target].node = n
        /\ QuerySelectorTarget(dom, dom[n].target) = n


\* C37 (as claimed): the path, evaluated as a CSS selector against the
\* unchanged document, selects a set of nodes that contains the node.
C37_PathSelectsNode ==
  call.fn = "computeElementPath" => SelectsElement(call.element, call.selector)

\* The text of a compound selector.
Render(c) ==
  c.tag \o (IF c.id # "" THEN "#" \o c.id ELSE "")
        \o (IF c.classNames # << >> THEN "." \o Join(c.classNames, ".") ELSE "")
        \o (IF c.role # "" THEN "[role=\"" \o c.role \o "\"]" ELSE "")
        \o (IF c.nth # 0 THEN ":nth-child(" \o ToString(c.nth) \o ")" ELSE "")

====
